---- MODULE Spec2Model ----
(***************************************************************************)
(* Aggregation engine of the workshop leaderboard backend: the projectors  *)
(* that fold the upstream "daily activity" document into per-team views.   *)
(*                                                                         *)
(* Python values are modelled as follows.                                  *)
(*   dict with string keys      function with a domain of strings          *)
(*   dict whose order matters   sequence of [k, v] pairs (insertion order) *)
(*   list                       sequence                                   *)
(*   optional field of a dict   [st, v]: st = "val" (key present, value    *)
(*                              v), "null" (key present, value None, what  *)
(*                              model_dump gives for an unset Optional),   *)
(*                              "missing" (key not in the dict, a plain    *)
(*                              dict response)                             *)
(*   d.get(k, default)          an [isNone, v] record: the value read, or  *)
(*                              None, on which any further access raises   *)
(***************************************************************************)
EXTENDS Integers, Sequences, FiniteSets, TLC

VARIABLES
    view,             \* which projector serves the request
    pc,               \* position of the request inside the projector
    initialized,      \* TeamService._initialized
    team_ids,         \* TeamService._team_ids
    team_id_to_name,  \* TeamService._team_id_to_name
    upstream,         \* whether the upstream activity fetch failed, and its message
    results,          \* data["results"] of the fetched document
    i,                \* index of the entry (day) being folded
    j,                \* index of the entity folded last inside entry i
    team_data,        \* TokenAggregationService: running result
    breakdown,        \* TokenAggregationService: result of the last _extract_breakdown
    daily_data,       \* TimeSeriesService: rows emitted so far
    error,            \* the exception that left the projector
    team_metrics,     \* SuccessRateService: running counters per team name
    summary,          \* SuccessRateService: the returned list
    team_model_data,  \* CostEfficiencyService: running totals per team name and model
    cells,            \* CostEfficiencyService: the returned list
    model_mapping,    \* ModelMappingService: internal model name -> display name
    model_totals,     \* ModelUsageService: running total per display name
    model_usage,      \* ModelUsageService: the returned ordered mapping
    fetch_count,      \* number of upstream fetch_teams calls made so far
    teams,            \* TeamService._teams
    history,          \* the calls made on the TeamService, with their results
    callers,          \* concurrent callers of the TeamService: position and locals
    request,          \* the HTTP request: its date parameters and the day it arrives
    response,         \* what the endpoint and the layers below it have produced
    served            \* number of requests the process has served

vars == <<view, pc, initialized, team_ids, team_id_to_name, upstream,
          results, i, j, team_data, breakdown, daily_data, error,
          team_metrics, summary, team_model_data, cells, model_mapping,
          model_totals, model_usage, fetch_count, teams, history, callers,
          request, response, served>>

\* the state of the success rate, cost efficiency and model usage projectors
sr_vars == <<team_metrics, summary>>
ce_vars == <<team_model_data, cells>>
mu_vars == <<model_mapping, model_totals, model_usage>>
other_projectors == <<sr_vars, ce_vars, mu_vars>>

\* the state of the calls made on the TeamService directly
svc_vars == <<teams, history, callers>>

\* the state of the HTTP layer and of the process
ep_vars == <<request, response, served>>

---------------------------------------------------------------------------
(* Bounds of the model *)

\* longest fetched document, in days
MaxDays == 2
\* largest value of a token or request counter of one day
MaxTok == 1
\* longest upstream error message, in characters
MaxMsgLen == 3

Tok == 0..MaxTok

---------------------------------------------------------------------------
(* Python helpers *)

EmptyDict == [k \in {} |-> 0]

\* d.get(k, dflt) on a dict without optional values
Get(d, k, dflt) == IF k \in DOMAIN d THEN d[k] ELSE dflt

Val(x) == [st |-> "val", v |-> x]
Null(filler) == [st |-> "null", v |-> filler]
Missing(filler) == [st |-> "missing", v |-> filler]

\* d.get(field, dflt) where the field is optional: the value, None, or dflt
GetOpt(o, dflt) ==
    IF o.st = "val" THEN [isNone |-> FALSE, v |-> o.v]
    ELSE IF o.st = "null" THEN [isNone |-> TRUE, v |-> dflt]
    ELSE [isNone |-> FALSE, v |-> dflt]

\* d.get(field) or dflt
GetOrElse(o, dflt) == IF o.st = "val" THEN o.v ELSE dflt

\* the {} that entry.get("breakdown", {}) defaults to: every key missing
EmptyBreakdown ==
    [entities |-> Missing(<<>>), model_groups |-> Missing(<<>>),
     api_keys |-> Missing(EmptyDict)]

\* the {} that entities.get(team_id, {}) defaults to
EmptyEntity == [metrics |-> EmptyDict, api_key_breakdown |-> Missing(EmptyDict)]

\* every enumeration of the finite set S (iteration order of a Python set)
Orders(S) ==
    {s \in [1..Cardinality(S) -> S] :
        \A a, b \in 1..Cardinality(S) : a # b => s[a] # s[b]}

\* one fixed enumeration of S
RECURSIVE CanonOrder(_)
CanonOrder(S) ==
    IF S = {} THEN <<>>
    ELSE LET x == CHOOSE y \in S : TRUE
         IN <<x>> \o CanonOrder(S \ {x})

\* position of key k in an ordered dict (0 when absent)
IndexOf(od, k) ==
    IF \E n \in 1..Len(od) : od[n].k = k
    THEN CHOOSE n \in 1..Len(od) : od[n].k = k
    ELSE 0

Max(S) == CHOOSE x \in S : \A y \in S : y <= x

---------------------------------------------------------------------------
(* TeamService: the team directory *)

\* a team_alias that is None
NoAlias == "<None>"

\* `x or y` on strings: None and "" are falsy
Truthy(x) == x # NoAlias /\ x # ""

\* fetch_teams: the id list and the id -> name map built from the fetched teams
TeamIdsOf(fetched) == [n \in 1..Len(fetched) |-> fetched[n].team_id]

TeamIdToNameOf(fetched) ==
    [id \in {fetched[n].team_id : n \in 1..Len(fetched)} |->
        LET n == Max({m \in 1..Len(fetched) : fetched[m].team_id = id})
        IN IF Truthy(fetched[n].team_alias) THEN fetched[n].team_alias ELSE id]

\* get_team_name: the cached name, or the id itself for an unknown id
get_team_name(team_id) == Get(team_id_to_name, team_id, team_id)

\* the team lists the upstream directory may answer with
TeamLists ==
    {<<[team_id |-> "t1", team_alias |-> a[1]], [team_id |-> "t2", team_alias |-> a[2]]>> :
        a \in {<<"A", NoAlias>>, <<"A", "A">>}}

\* no request received yet, nothing produced yet
NoRequest == [start_date |-> Null(<<>>), end_date |-> Null(<<>>), today |-> 0]

NoOutcome == [type |-> "", msg |-> <<>>]

NoArgs == [start_date |-> [format |-> "", day |-> 0],
           end_date |-> [format |-> "", day |-> 0, time |-> ""]]

NoResponse ==
    [status |-> 0, detail |-> <<>>, body |-> "", called |-> FALSE, args |-> NoArgs,
     service |-> "", answer |-> [kind |-> "", total_pages |-> 0, msg |-> <<>>],
     client |-> NoOutcome, outcome |-> NoOutcome, exited |-> FALSE]

\* the concurrent callers of one TeamService, and a caller that has not called
Callers == {"c1", "c2"}

Idle == [pc |-> "idle", op |-> "", arg |-> "", saw_uninitialized |-> FALSE,
         fetched |-> <<>>, teams |-> <<>>, team_ids |-> <<>>, name |-> ""]

---------------------------------------------------------------------------
(* TokenAggregationService *)

AllModels == "All Models"

\* the model entry _extract_breakdown builds from a metrics dict
ModelEntry(model_name, metrics) ==
    [model_name |-> model_name,
     total_tokens |-> Get(metrics, "total_tokens", 0),
     prompt_tokens |-> Get(metrics, "prompt_tokens", 0),
     completion_tokens |-> Get(metrics, "completion_tokens", 0)]

\* the entries of api_key_models[api_key]: one per model group, in the order of
\* model_groups, whose api_key_breakdown holds the key
RECURSIVE KeyModels(_, _)
KeyModels(model_groups, api_key) ==
    IF model_groups = <<>> THEN <<>>
    ELSE LET model_name == Head(model_groups).k
             model_api_key_breakdown ==
                 GetOpt(Head(model_groups).v.api_key_breakdown, EmptyDict).v
             rest == KeyModels(Tail(model_groups), api_key)
         IN IF api_key \in DOMAIN model_api_key_breakdown
            THEN <<ModelEntry(model_name, model_api_key_breakdown[api_key].metrics)>> \o rest
            ELSE rest

\* top_level_api_keys.get(api_key, {}).get("metadata", {}).get("key_alias")
KeyAliasOf(top_level_api_keys, api_key) ==
    LET rec == Get(top_level_api_keys, api_key, [metadata |-> Missing(EmptyDict)])
    IN Get(GetOpt(rec.metadata, EmptyDict).v, "key_alias", NoAlias)

\* the exception _extract_breakdown raises on a None value ("" when it raises none)
extract_error(entity, top_level_breakdown) ==
    LET akb == GetOpt(entity.api_key_breakdown, EmptyDict)
        tlak == GetOpt(top_level_breakdown.api_keys, EmptyDict)
        mgs == GetOpt(top_level_breakdown.model_groups, <<>>)
        keys == DOMAIN akb.v
    IN IF akb.isNone THEN "AttributeError"                   \* None.keys()
       ELSE IF mgs.isNone THEN "AttributeError"              \* None.items()
       ELSE IF keys # {} /\ \E n \in 1..Len(mgs.v) :
                   GetOpt(mgs.v[n].v.api_key_breakdown, EmptyDict).isNone
            THEN "TypeError"                                 \* api_key in None
       ELSE IF keys # {} /\ tlak.isNone THEN "AttributeError" \* None.get(api_key, {})
       ELSE IF \E k \in keys \cap DOMAIN tlak.v :
                   GetOpt(tlak.v[k].metadata, EmptyDict).isNone
            THEN "AttributeError"                            \* None.get("key_alias")
       ELSE ""

\* _extract_breakdown that adds the "All Models" entry to every key
extract_breakdown_always_fallback(entity, top_level_breakdown, order) ==
    LET akb == GetOpt(entity.api_key_breakdown, EmptyDict).v
        top_level_api_keys == GetOpt(top_level_breakdown.api_keys, EmptyDict).v
        top_level_models == GetOpt(top_level_breakdown.model_groups, <<>>).v
        KeyEntry(api_key) ==
            LET key_alias == KeyAliasOf(top_level_api_keys, api_key)
            IN [api_key |-> api_key,
                key_alias |-> IF Truthy(key_alias) THEN key_alias ELSE NoAlias,
                models |-> KeyModels(top_level_models, api_key)
                             \o <<ModelEntry(AllModels, akb[api_key].metrics)>>]
    IN [n \in 1..Len(order) |-> KeyEntry(order[n])]

\* _extract_breakdown: breakdown["api_keys"] for one entity of one day; `order` is
\* the order in which Python iterates the set entity_api_keys
extract_breakdown(entity, top_level_breakdown, order) ==
    LET akb == GetOpt(entity.api_key_breakdown, EmptyDict).v
        top_level_api_keys == GetOpt(top_level_breakdown.api_keys, EmptyDict).v
        top_level_models == GetOpt(top_level_breakdown.model_groups, <<>>).v
        KeyEntry(api_key) ==
            LET models == KeyModels(top_level_models, api_key)
                key_alias == KeyAliasOf(top_level_api_keys, api_key)
            IN [api_key |-> api_key,
                key_alias |-> IF Truthy(key_alias) THEN key_alias ELSE NoAlias,
                models |-> IF models # <<>> THEN models
                           ELSE <<ModelEntry(AllModels, akb[api_key].metrics)>>]
    IN [n \in 1..Len(order) |-> KeyEntry(order[n])]

\* MergeModels with "=" in place of "+=": the day's counts replace the totals
RECURSIVE MergeModels_Assign(_, _, _)
MergeModels_Assign(models, existing_models, source_models) ==
    IF source_models = <<>> THEN models
    ELSE LET source_model == Head(source_models)
             at == {n \in 1..Len(existing_models) :
                        existing_models[n].model_name = source_model.model_name}
         IN IF at # {}
            THEN MergeModels_Assign(
                   [models EXCEPT
                      ![Max(at)].total_tokens = source_model.total_tokens,
                      ![Max(at)].prompt_tokens = source_model.prompt_tokens,
                      ![Max(at)].completion_tokens = source_model.completion_tokens],
                   existing_models, Tail(source_models))
            ELSE MergeModels_Assign(Append(models, source_model), existing_models,
                                    Tail(source_models))

\* MergeModels without the lookup of existing models: every source model is
\* appended
RECURSIVE MergeModels_AlwaysAppend(_, _, _)
MergeModels_AlwaysAppend(models, existing_models, source_models) ==
    IF source_models = <<>> THEN models
    ELSE MergeModels_AlwaysAppend(Append(models, Head(source_models)),
                                  existing_models, Tail(source_models))

\* the inner loop of _merge_breakdown: the models of one source key merged into
\* the models of the existing key (existing_models is a snapshot taken first)
RECURSIVE MergeModels(_, _, _)
MergeModels(models, existing_models, source_models) ==
    IF source_models = <<>> THEN models
    ELSE LET source_model == Head(source_models)
             at == {n \in 1..Len(existing_models) :
                        existing_models[n].model_name = source_model.model_name}
         IN IF at # {}
            THEN MergeModels(
                   [models EXCEPT
                      ![Max(at)].total_tokens = @ + source_model.total_tokens,
                      ![Max(at)].prompt_tokens = @ + source_model.prompt_tokens,
                      ![Max(at)].completion_tokens = @ + source_model.completion_tokens],
                   existing_models, Tail(source_models))
            ELSE MergeModels(Append(models, source_model), existing_models,
                             Tail(source_models))

\* MergeKeys without the lookup of existing keys: every source key is appended
RECURSIVE MergeKeys_AlwaysAppend(_, _, _)
MergeKeys_AlwaysAppend(api_keys, existing_keys, source_keys) ==
    IF source_keys = <<>> THEN api_keys
    ELSE MergeKeys_AlwaysAppend(Append(api_keys, Head(source_keys)), existing_keys,
                                Tail(source_keys))

\* MergeKeys that also copies the source's key_alias onto the existing entry
RECURSIVE MergeKeys_TakeAlias(_, _, _)
MergeKeys_TakeAlias(api_keys, existing_keys, source_keys) ==
    IF source_keys = <<>> THEN api_keys
    ELSE LET source_key_data == Head(source_keys)
             at == {n \in 1..Len(existing_keys) :
                        existing_keys[n].api_key = source_key_data.api_key}
         IN IF at # {}
            THEN MergeKeys_TakeAlias(
                   [api_keys EXCEPT
                      ![Max(at)].models = MergeModels(@, @, source_key_data.models),
                      ![Max(at)].key_alias = source_key_data.key_alias],
                   existing_keys, Tail(source_keys))
            ELSE MergeKeys_TakeAlias(Append(api_keys, source_key_data), existing_keys,
                                     Tail(source_keys))

\* the outer loop of _merge_breakdown (existing_keys is a snapshot of the target
\* taken before the loop)
RECURSIVE MergeKeys(_, _, _)
MergeKeys(api_keys, existing_keys, source_keys) ==
    IF source_keys = <<>> THEN api_keys
    ELSE LET source_key_data == Head(source_keys)
             at == {n \in 1..Len(existing_keys) :
                        existing_keys[n].api_key = source_key_data.api_key}
         IN IF at # {}
            THEN MergeKeys(
                   [api_keys EXCEPT ![Max(at)].models =
                        MergeModels(@, @, source_key_data.models)],
                   existing_keys, Tail(source_keys))
            ELSE MergeKeys(Append(api_keys, source_key_data), existing_keys,
                           Tail(source_keys))

\* _merge_breakdown that replaces the target's list by the source's
merge_breakdown_replacing(target, source) == source

\* _merge_breakdown(target, source), on the two "api_keys" lists
merge_breakdown(target, source) == MergeKeys(target, target, source)

\* the body of the loop over entities.items(): one entity folded into team_data
fold_entity(td, team_id, entity, top_level_breakdown, order) ==
    LET total_tokens == Get(entity.metrics, "total_tokens", 0)
        team_name == get_team_name(team_id)
    IN IF team_name \in DOMAIN td
       THEN [td EXCEPT ![team_name] =
               [total_tokens |-> @.total_tokens + total_tokens,
                api_keys |-> merge_breakdown(@.api_keys,
                    extract_breakdown(entity, top_level_breakdown, order))]]
       ELSE td

\* the loop over entities.items() of one entry, sets iterated in a fixed order
RECURSIVE FoldEntities(_, _, _)
FoldEntities(td, entities, top_level_breakdown) ==
    IF entities = <<>> THEN td
    ELSE FoldEntities(
           fold_entity(td, Head(entities).k, Head(entities).v, top_level_breakdown,
               CanonOrder(DOMAIN GetOpt(Head(entities).v.api_key_breakdown, EmptyDict).v)),
           Tail(entities), top_level_breakdown)

\* the loop over data["results"], for a document on which nothing raises
RECURSIVE FoldResults(_, _)
FoldResults(td, entries) ==
    IF entries = <<>> THEN td
    ELSE LET top_level_breakdown == GetOpt(Head(entries).breakdown, EmptyBreakdown).v
         IN FoldResults(
              FoldEntities(td, GetOpt(top_level_breakdown.entities, <<>>).v,
                           top_level_breakdown),
              Tail(entries))

\* the initial result structure: one record per team name
InitTeamData ==
    [name \in {get_team_name(team_ids[n]) : n \in 1..Len(team_ids)} |->
        [total_tokens |-> 0, api_keys |-> <<>>]]

\* fetch_total_tokens_per_team on a fetched document, as one function
fetch_total_tokens_per_team(entries) == FoldResults(InitTeamData, entries)

---------------------------------------------------------------------------
(* The upstream: error messages and documents *)

Chars == {"e", ":", " "}

\* the messages an upstream RuntimeError may carry
Msgs == UNION {[1..n -> Chars] : n \in 0..MaxMsgLen}

\* str(e).split(': ', 1)
SplitOnce(msg) ==
    LET at == {n \in 1..(Len(msg) - 1) : msg[n] = ":" /\ msg[n + 1] = " "}
    IN IF at = {} THEN <<msg>>
       ELSE LET n == CHOOSE x \in at : \A y \in at : x <= y
            IN <<SubSeq(msg, 1, n - 1), SubSeq(msg, n + 2, Len(msg))>>

NoError == [type |-> "", msg |-> <<>>]

\* the except clause of the projectors: raise RuntimeError(f"{prefix}{parts[1]}")
WrapError(prefix, msg) ==
    IF Len(SplitOnce(msg)) > 1
    THEN [type |-> "RuntimeError", msg |-> <<prefix>> \o SplitOnce(msg)[2]]
    ELSE [type |-> "IndexError", msg |-> <<"list index out of range">>]

TokMetrics(t, p, c) ==
    [total_tokens |-> t, prompt_tokens |-> p, completion_tokens |-> c]

\* an api_key_breakdown in which every key of ks carries the metrics m
KeyUse(ks, m) == [k \in ks |-> [metrics |-> m]]

Ent(team_id, metrics, akb) ==
    [k |-> team_id, v |-> [metrics |-> metrics, api_key_breakdown |-> akb]]

Grp(model_name, akb) ==
    [k |-> model_name, v |-> [metrics |-> EmptyDict, api_key_breakdown |-> akb]]

Meta(alias) == [metadata |-> Val([key_alias |-> alias])]

MkDay(date, entities, model_groups, api_keys) ==
    [date |-> date,
     breakdown |-> Val([entities |-> entities, model_groups |-> model_groups,
                        api_keys |-> api_keys])]

One == TokMetrics(MaxTok, MaxTok, 0)

\* the plain day: team t1 used key k1 on model m1
PlainEnt == Val(<<Ent("t1", [total_tokens |-> MaxTok], Val(KeyUse({"k1"}, One)))>>)
PlainGrp == Val(<<Grp("m1", Val(KeyUse({"k1"}, One)))>>)

\* days that differ in the counters
ValueDays ==
    {MkDay("d1",
           Val(<<Ent("t1", [total_tokens |-> MaxTok - t, prompt_tokens |-> t],
                     Val(KeyUse({"k1"}, TokMetrics(p, t, MaxTok - t))))>>),
           Val(<<Grp("m1", Val(KeyUse({"k1"}, TokMetrics(t, p, MaxTok - p))))>>),
           Val(EmptyDict)) : t \in Tok, p \in Tok}

\* days that differ in what api_keys says about k1
AliasDays ==
    {MkDay("d1", PlainEnt, PlainGrp, aks) :
        aks \in {Val([k \in {"k1"} |-> Meta("a")]),
                 Val([k \in {"k1"} |-> Meta("b")]),
                 Val([k \in {"k1"} |-> Meta("")]),
                 Val([k \in {"k1"} |-> [metadata |-> Val(EmptyDict)]]),
                 Val([k \in {"k1"} |-> [metadata |-> Null(EmptyDict)]]),
                 Null(EmptyDict), Missing(EmptyDict)}}

\* days that differ in which teams, keys and model groups they hold
ShapeDays ==
    {\* a key without model attribution
     MkDay("d1", Val(<<Ent("t1", [total_tokens |-> MaxTok],
                           Val(KeyUse({"k1"}, TokMetrics(MaxTok, 0, MaxTok))))>>),
           Val(<<>>), Val([k \in {"k1"} |-> Meta("a")])),
     \* another model for the same key
     MkDay("d1", PlainEnt, Val(<<Grp("m2", Val(KeyUse({"k1"}, One)))>>), Val(EmptyDict)),
     \* one key in two model groups
     MkDay("d1", PlainEnt,
           Val(<<Grp("m1", Val(KeyUse({"k1"}, One))),
                 Grp("m2", Val(KeyUse({"k1"}, TokMetrics(0, 0, MaxTok))))>>),
           Val(EmptyDict)),
     \* two keys, one of them without model attribution
     MkDay("d1", Val(<<Ent("t1", [total_tokens |-> MaxTok],
                           Val(KeyUse({"k1", "k2"}, TokMetrics(0, MaxTok, 0))))>>),
           PlainGrp, Val([k \in {"k2"} |-> Meta("b")])),
     \* the other team, with the same key
     MkDay("d1", Val(<<Ent("t2", [total_tokens |-> MaxTok], Val(KeyUse({"k1"}, One)))>>),
           PlainGrp, Val(EmptyDict)),
     \* both teams
     MkDay("d1", Val(<<Ent("t2", [total_tokens |-> MaxTok], Val(KeyUse({"k2"}, One))),
                       Ent("t1", [total_tokens |-> 0], Val(KeyUse({"k1"}, One)))>>),
           Val(<<Grp("m1", Val(KeyUse({"k1", "k2"}, One)))>>), Val(EmptyDict)),
     \* an entity that is no requested team, its id the display name of one
     MkDay("d1", Val(<<Ent("A", [total_tokens |-> MaxTok], Val(KeyUse({"k2"}, One)))>>),
           PlainGrp, Val(EmptyDict)),
     \* no team at all
     MkDay("d1", Val(<<>>), PlainGrp, Val(EmptyDict)),
     \* a team without keys
     MkDay("d1", Val(<<Ent("t1", [total_tokens |-> MaxTok], Val(EmptyDict))>>),
           PlainGrp, Val(EmptyDict)),
     \* counters missing
     MkDay("d1", Val(<<Ent("t1", EmptyDict, Val(KeyUse({"k1"}, EmptyDict)))>>),
           Val(<<Grp("m1", Val(KeyUse({"k1"}, EmptyDict)))>>), Val(EmptyDict)),
     \* counters all zero
     MkDay("d1", Val(<<Ent("t1", [total_tokens |-> 0],
                           Val(KeyUse({"k1"}, TokMetrics(0, 0, 0))))>>),
           Val(<<Grp("m1", Val(KeyUse({"k1"}, TokMetrics(0, 0, 0))))>>), Val(EmptyDict))}

\* days in which a part of the document is absent: None or not there
AbsentDays ==
    UNION {
      LET Absent(filler) == [st |-> how, v |-> filler] IN
      {[date |-> "d1", breakdown |-> Absent(EmptyBreakdown)],
       MkDay("d1", Absent(<<>>), PlainGrp, Val(EmptyDict)),
       MkDay("d1", PlainEnt, Absent(<<>>), Val(EmptyDict)),
       MkDay("d1", Val(<<Ent("t1", [total_tokens |-> MaxTok], Absent(EmptyDict))>>),
             PlainGrp, Val(EmptyDict)),
       MkDay("d1", PlainEnt, Val(<<Grp("m1", Absent(EmptyDict))>>), Val(EmptyDict))}
      : how \in {"null", "missing"}}

TotalsDays == ValueDays \cup AliasDays \cup ShapeDays \cup AbsentDays

DocsOf(days) == UNION {[1..n -> days] : n \in 0..MaxDays}

---------------------------------------------------------------------------
(* The request: directory lookup and upstream fetch *)

Views == {"totals", "timeseries"}

InitRequest ==
    /\ pc = "start"
    /\ initialized = FALSE
    /\ team_ids = <<>>
    /\ team_id_to_name = EmptyDict
    /\ upstream = [failed |-> FALSE, msg |-> <<>>]
    /\ results = <<>>
    /\ i = 0
    /\ j = 0
    /\ team_data = EmptyDict
    /\ breakdown = <<>>
    /\ daily_data = <<>>
    /\ error = NoError
    /\ team_metrics = EmptyDict
    /\ summary = <<>>
    /\ team_model_data = <<>>
    /\ cells = <<>>
    /\ model_mapping = EmptyDict
    /\ model_totals = <<>>
    /\ model_usage = <<>>
    /\ fetch_count = 0
    /\ teams = <<>>
    /\ history = <<>>
    /\ callers = [c \in Callers |-> Idle]
    /\ request = NoRequest
    /\ response = NoResponse
    /\ served = 0

\* team_service.get_team_ids(): the first use fetches and caches the directory
GetTeamIds ==
    /\ pc = "start"
    /\ IF initialized
       THEN UNCHANGED <<initialized, team_ids, team_id_to_name, fetch_count, teams>>
       ELSE \E fetched \in TeamLists :
              /\ teams' = fetched
              /\ team_ids' = TeamIdsOf(fetched)
              /\ team_id_to_name' = TeamIdToNameOf(fetched)
              /\ initialized' = TRUE
              /\ fetch_count' = fetch_count + 1
    /\ UNCHANGED <<history, callers, ep_vars>>
    /\ pc' = "fetch"
    /\ UNCHANGED other_projectors
    /\ UNCHANGED <<view, upstream, results, i, j, team_data, breakdown, daily_data, error>>

\* entry.get("breakdown", {}) and top_level_breakdown.get("entities", {})
TopLevel(entry) == GetOpt(entry.breakdown, EmptyBreakdown)
EntitiesOf(entry) == GetOpt(TopLevel(entry).v.entities, <<>>)

---------------------------------------------------------------------------
(* TokenAggregationService.fetch_total_tokens_per_team *)

\* fetch_team_daily_activity raises RuntimeError: the except clause re-raises
TotalsFetchFail ==
    /\ view = "totals" /\ pc = "fetch"
    /\ \E msg \in Msgs :
         /\ upstream' = [failed |-> TRUE, msg |-> msg]
         /\ error' = WrapError("Error fetching team token usage: ", msg)
    /\ pc' = "raised"
    /\ UNCHANGED <<other_projectors, fetch_count, svc_vars, ep_vars>>
    /\ UNCHANGED <<view, initialized, team_ids, team_id_to_name, results, i, j,
                   team_data, breakdown, daily_data>>

\* the fetch succeeds: the result structure is initialised
TotalsFetchOk ==
    /\ view = "totals" /\ pc = "fetch"
    /\ \E doc \in DocsOf(TotalsDays) : results' = doc
    /\ team_data' = InitTeamData
    /\ i' = 1 /\ j' = 0
    /\ pc' = "fold"
    /\ UNCHANGED <<other_projectors, fetch_count, svc_vars, ep_vars>>
    /\ UNCHANGED <<view, initialized, team_ids, team_id_to_name, upstream,
                   breakdown, daily_data, error>>

\* the entry's breakdown or its entities is None: .get / .items() raises
TotalsEntryRaise ==
    /\ view = "totals" /\ pc = "fold" /\ i <= Len(results) /\ j = 0
    /\ TopLevel(results[i]).isNone \/ EntitiesOf(results[i]).isNone
    /\ error' = [type |-> "AttributeError", msg |-> <<>>]
    /\ pc' = "raised"
    /\ UNCHANGED <<other_projectors, fetch_count, svc_vars, ep_vars>>
    /\ UNCHANGED <<view, initialized, team_ids, team_id_to_name, upstream, results,
                   i, j, team_data, breakdown, daily_data>>

\* the next entity of the entry is one of the requested teams and
\* _extract_breakdown raises on a None inside the breakdown
TotalsExtractRaise ==
    /\ view = "totals" /\ pc = "fold" /\ i <= Len(results)
    /\ ~TopLevel(results[i]).isNone /\ ~EntitiesOf(results[i]).isNone
    /\ j < Len(EntitiesOf(results[i]).v)
    /\ LET e == EntitiesOf(results[i]).v[j + 1]
       IN /\ get_team_name(e.k) \in DOMAIN team_data
          /\ extract_error(e.v, TopLevel(results[i]).v) # ""
          /\ error' = [type |-> extract_error(e.v, TopLevel(results[i]).v), msg |-> <<>>]
    /\ pc' = "raised"
    /\ UNCHANGED <<other_projectors, fetch_count, svc_vars, ep_vars>>
    /\ UNCHANGED <<view, initialized, team_ids, team_id_to_name, upstream, results,
                   i, j, team_data, breakdown, daily_data>>

\* the next entity of the entry is folded into team_data
TotalsFoldEntity ==
    /\ view = "totals" /\ pc = "fold" /\ i <= Len(results)
    /\ ~TopLevel(results[i]).isNone /\ ~EntitiesOf(results[i]).isNone
    /\ j < Len(EntitiesOf(results[i]).v)
    /\ LET e == EntitiesOf(results[i]).v[j + 1]
           tlb == TopLevel(results[i]).v
       IN IF get_team_name(e.k) \in DOMAIN team_data
          THEN /\ extract_error(e.v, tlb) = ""
               /\ \E order \in Orders(DOMAIN GetOpt(e.v.api_key_breakdown, EmptyDict).v) :
                    /\ breakdown' = extract_breakdown(e.v, tlb, order)
                    /\ team_data' = fold_entity(team_data, e.k, e.v, tlb, order)
          ELSE UNCHANGED <<team_data, breakdown>>
    /\ j' = j + 1
    /\ UNCHANGED <<other_projectors, fetch_count, svc_vars, ep_vars>>
    /\ UNCHANGED <<view, pc, initialized, team_ids, team_id_to_name, upstream,
                   results, i, daily_data, error>>

\* every entity of the entry is folded: on to the next entry
TotalsNextEntry ==
    /\ view = "totals" /\ pc = "fold" /\ i <= Len(results)
    /\ ~TopLevel(results[i]).isNone /\ ~EntitiesOf(results[i]).isNone
    /\ j = Len(EntitiesOf(results[i]).v)
    /\ i' = i + 1 /\ j' = 0
    /\ UNCHANGED <<other_projectors, fetch_count, svc_vars, ep_vars>>
    /\ UNCHANGED <<view, pc, initialized, team_ids, team_id_to_name, upstream,
                   results, team_data, breakdown, daily_data, error>>

\* every entry is folded: return team_data
TotalsReturn ==
    /\ view = "totals" /\ pc = "fold" /\ i > Len(results)
    /\ pc' = "done"
    /\ UNCHANGED <<other_projectors, fetch_count, svc_vars, ep_vars>>
    /\ UNCHANGED <<view, initialized, team_ids, team_id_to_name, upstream, results,
                   i, j, team_data, breakdown, daily_data, error>>

InitTotals == view = "totals" /\ InitRequest

NextTotals ==
    \/ GetTeamIds
    \/ TotalsFetchFail
    \/ TotalsFetchOk
    \/ TotalsEntryRaise
    \/ TotalsExtractRaise
    \/ TotalsFoldEntity
    \/ TotalsNextEntry
    \/ TotalsReturn

SpecTotals == InitTotals /\ [][NextTotals]_vars

---------------------------------------------------------------------------
(* TimeSeriesService.fetch_daily_timeseries_per_team *)

ReqMetrics(t, r, s, f) ==
    [total_tokens |-> t, api_requests |-> r, successful_requests |-> s,
     failed_requests |-> f]

\* the days of the time-series documents: two dates, a team present or not
TimeSeriesDays ==
    UNION {
      {[date |-> date, breakdown |-> Null(EmptyBreakdown)],
       [date |-> date, breakdown |-> Missing(EmptyBreakdown)],
       MkDay(date, Null(<<>>), Val(<<>>), Val(EmptyDict)),
       MkDay(date, Missing(<<>>), Val(<<>>), Val(EmptyDict)),
       MkDay(date, Val(<<>>), Null(<<>>), Null(EmptyDict)),
       MkDay(date, Val(<<Ent("t2", ReqMetrics(MaxTok, MaxTok, 0, MaxTok),
                             Null(EmptyDict))>>), Null(<<>>), Null(EmptyDict)),
       MkDay(date, Val(<<Ent("t2", ReqMetrics(MaxTok, 0, MaxTok, 0), Null(EmptyDict)),
                         Ent("t1", ReqMetrics(0, MaxTok, MaxTok, 0), Null(EmptyDict))>>),
             Null(<<>>), Null(EmptyDict)),
       MkDay(date, Val(<<Ent("t1", EmptyDict, Missing(EmptyDict))>>),
             Missing(<<>>), Missing(EmptyDict))}
      \cup {MkDay(date, Val(<<Ent("t1", ReqMetrics(t, MaxTok, MaxTok - t, t),
                                  Null(EmptyDict))>>), Null(<<>>), Null(EmptyDict)) :
              t \in Tok}
      : date \in {"d1", "d2"}}

\* entities.get(team_id, {}) on the ordered dict of entities
EntityOf(entities, team_id) ==
    IF IndexOf(entities, team_id) = 0 THEN EmptyEntity
    ELSE entities[IndexOf(entities, team_id)].v

\* the element of teams_for_day with the tokens of the previous row added
TeamPoint_Accumulating(entities, team_id) ==
    LET metrics == EntityOf(entities, team_id).metrics
        at == {n \in 1..Len(team_ids) : team_ids[n] = team_id}
        before == IF daily_data = <<>> \/ at = {} THEN 0
                  ELSE daily_data[Len(daily_data)].teams[CHOOSE n \in at : TRUE].tokens
    IN [name |-> get_team_name(team_id),
        tokens |-> before + Get(metrics, "total_tokens", 0),
        total_requests |-> Get(metrics, "api_requests", 0),
        successful_requests |-> Get(metrics, "successful_requests", 0),
        failed_requests |-> Get(metrics, "failed_requests", 0)]

\* the element of teams_for_day built for one team
TeamPoint(entities, team_id) ==
    LET metrics == EntityOf(entities, team_id).metrics
    IN [name |-> get_team_name(team_id),
        tokens |-> Get(metrics, "total_tokens", 0),
        total_requests |-> Get(metrics, "api_requests", 0),
        successful_requests |-> Get(metrics, "successful_requests", 0),
        failed_requests |-> Get(metrics, "failed_requests", 0)]

\* teams_for_day built from the entities of the day instead of team_ids
teams_for_day_present_only(entities) ==
    [n \in 1..Len(entities) |-> TeamPoint(entities, entities[n].k)]

\* teams_for_day: one element per team id, in the order of team_ids
teams_for_day(entities) ==
    [n \in 1..Len(team_ids) |-> TeamPoint(entities, team_ids[n])]

\* breakdown = entry.get("breakdown") or {}; entities = breakdown.get("entities", {})
TimeSeriesEntities(entry) ==
    GetOpt(GetOrElse(entry.breakdown, EmptyBreakdown).entities, <<>>)

TimeSeriesFetchFail ==
    /\ view = "timeseries" /\ pc = "fetch"
    /\ \E msg \in Msgs :
         /\ upstream' = [failed |-> TRUE, msg |-> msg]
         /\ error' = WrapError("Error fetching team token usage: ", msg)
    /\ pc' = "raised"
    /\ UNCHANGED <<other_projectors, fetch_count, svc_vars, ep_vars>>
    /\ UNCHANGED <<view, initialized, team_ids, team_id_to_name, results, i, j,
                   team_data, breakdown, daily_data>>

TimeSeriesFetchOk ==
    /\ view = "timeseries" /\ pc = "fetch"
    /\ \E doc \in DocsOf(TimeSeriesDays) : results' = doc
    /\ daily_data' = <<>>
    /\ i' = 1
    /\ pc' = "fold"
    /\ UNCHANGED <<other_projectors, fetch_count, svc_vars, ep_vars>>
    /\ UNCHANGED <<view, initialized, team_ids, team_id_to_name, upstream, j,
                   team_data, breakdown, error>>

\* the entities of the entry are None: entities.get(team_id, {}) raises
TimeSeriesEntryRaise ==
    /\ view = "timeseries" /\ pc = "fold" /\ i <= Len(results)
    /\ TimeSeriesEntities(results[i]).isNone /\ team_ids # <<>>
    /\ error' = [type |-> "AttributeError", msg |-> <<>>]
    /\ pc' = "raised"
    /\ UNCHANGED <<other_projectors, fetch_count, svc_vars, ep_vars>>
    /\ UNCHANGED <<view, initialized, team_ids, team_id_to_name, upstream, results,
                   i, j, team_data, breakdown, daily_data>>

\* one entry becomes one row of daily_data
TimeSeriesFoldEntry ==
    /\ view = "timeseries" /\ pc = "fold" /\ i <= Len(results)
    /\ ~(TimeSeriesEntities(results[i]).isNone /\ team_ids # <<>>)
    /\ daily_data' = Append(daily_data,
           [date |-> results[i].date,
            teams |-> teams_for_day(TimeSeriesEntities(results[i]).v)])
    /\ i' = i + 1
    /\ UNCHANGED <<other_projectors, fetch_count, svc_vars, ep_vars>>
    /\ UNCHANGED <<view, pc, initialized, team_ids, team_id_to_name, upstream,
                   results, j, team_data, breakdown, error>>

TimeSeriesReturn ==
    /\ view = "timeseries" /\ pc = "fold" /\ i > Len(results)
    /\ pc' = "done"
    /\ UNCHANGED <<other_projectors, fetch_count, svc_vars, ep_vars>>
    /\ UNCHANGED <<view, initialized, team_ids, team_id_to_name, upstream, results,
                   i, j, team_data, breakdown, daily_data, error>>

InitTimeSeries == view = "timeseries" /\ InitRequest

NextTimeSeries ==
    \/ GetTeamIds
    \/ TimeSeriesFetchFail
    \/ TimeSeriesFetchOk
    \/ TimeSeriesEntryRaise
    \/ TimeSeriesFoldEntry
    \/ TimeSeriesReturn

SpecTimeSeries == InitTimeSeries /\ [][NextTimeSeries]_vars

---------------------------------------------------------------------------
(* SuccessRateService.fetch_team_success_rate_summary *)

\* the integer nearest to num / den, a tie going to the even one
RoundHalfEven(num, den) ==
    LET q == num \div den
        r == num % den
    IN IF 2 * r < den THEN q
       ELSE IF 2 * r > den THEN q + 1
       ELSE IF q % 2 = 0 THEN q ELSE q + 1

\* a success rate or a cost is held as an integer number of its last decimal:
\* round(x, 2) in hundredths, round(x, 4) in ten-thousandths
Hundredths == 100

\* round((successful / total * 100) if total > 0 else 0.0, 2), in hundredths
success_rate_always_divides(successful, total) ==
    RoundHalfEven(successful * 100 * Hundredths, IF total = 0 THEN 1 ELSE total)

success_rate(successful, total) ==
    IF total > 0 THEN RoundHalfEven(successful * 100 * Hundredths, total) ELSE 0

\* the two days of the documented end-to-end scenario: 100/95/5, then 150/140/10
ExampleRequests == <<ReqMetrics(0, 100, 95, 5), ReqMetrics(0, 150, 140, 10)>>

\* the days of the success-rate documents
SuccessRateDays ==
    {MkDay("d1", Val(<<Ent("t1", ExampleRequests[n], Null(EmptyDict))>>),
           Null(<<>>), Null(EmptyDict)) : n \in 1..2}
    \cup {MkDay("d1", Val(<<Ent("t2", ReqMetrics(0, 3, s, 3 - s), Null(EmptyDict))>>),
                Null(<<>>), Null(EmptyDict)) : s \in Tok}
    \cup {MkDay("d1", Val(<<Ent("t1", ReqMetrics(0, 0, MaxTok, 0), Null(EmptyDict))>>),
                Null(<<>>), Null(EmptyDict)),
          MkDay("d1", Val(<<Ent("t2", ReqMetrics(0, MaxTok, MaxTok, 0), Null(EmptyDict)),
                            Ent("t1", ReqMetrics(0, MaxTok, 0, MaxTok), Null(EmptyDict))>>),
                Null(<<>>), Null(EmptyDict)),
          MkDay("d1", Val(<<Ent("t1", EmptyDict, Missing(EmptyDict))>>),
                Missing(<<>>), Missing(EmptyDict)),
          MkDay("d1", Val(<<>>), Null(<<>>), Null(EmptyDict)),
          MkDay("d1", Null(<<>>), Null(<<>>), Null(EmptyDict)),
          MkDay("d1", Missing(<<>>), Missing(<<>>), Missing(EmptyDict)),
          [date |-> "d1", breakdown |-> Null(EmptyBreakdown)],
          [date |-> "d1", breakdown |-> Missing(EmptyBreakdown)]}

\* the keys of a dict built from a list, in insertion order
RECURSIVE FirstSeen(_)
FirstSeen(seq) ==
    IF seq = <<>> THEN <<>>
    ELSE LET rest == FirstSeen(SubSeq(seq, 1, Len(seq) - 1))
             last == seq[Len(seq)]
         IN IF \E n \in 1..Len(rest) : rest[n] = last THEN rest ELSE Append(rest, last)

\* the team names in the order the result dicts hold them
TeamNames == FirstSeen([n \in 1..Len(team_ids) |-> get_team_name(team_ids[n])])

InitTeamMetrics ==
    [name \in {get_team_name(team_ids[n]) : n \in 1..Len(team_ids)} |->
        [total_requests |-> 0, successful_requests |-> 0, failed_requests |-> 0]]

\* the three += of one team inside one entry
add_team_metrics(tm, entities, team_id) ==
    LET metrics == EntityOf(entities, team_id).metrics
    IN [tm EXCEPT ![get_team_name(team_id)] =
          [total_requests |-> @.total_requests + Get(metrics, "api_requests", 0),
           successful_requests |->
              @.successful_requests + Get(metrics, "successful_requests", 0),
           failed_requests |-> @.failed_requests + Get(metrics, "failed_requests", 0)]]

\* for team_id in team_ids, from the n-th on
RECURSIVE AddTeamMetrics(_, _, _)
AddTeamMetrics(tm, entities, n) ==
    IF n > Len(team_ids) THEN tm
    ELSE AddTeamMetrics(add_team_metrics(tm, entities, team_ids[n]), entities, n + 1)

\* the summary element of one team name
SummaryRow(name, metrics) ==
    [name |-> name,
     total_requests |-> metrics.total_requests,
     successful_requests |-> metrics.successful_requests,
     failed_requests |-> metrics.failed_requests,
     success_rate |-> success_rate(metrics.successful_requests, metrics.total_requests)]

SuccessRateFetchFail ==
    /\ view = "success_rate" /\ pc = "fetch"
    /\ \E msg \in Msgs :
         /\ upstream' = [failed |-> TRUE, msg |-> msg]
         /\ error' = WrapError("Error fetching team token usage: ", msg)
    /\ pc' = "raised"
    /\ UNCHANGED <<sr_vars, ce_vars, mu_vars, fetch_count, svc_vars, ep_vars>>
    /\ UNCHANGED <<view, initialized, team_ids, team_id_to_name, results, i, j,
                   team_data, breakdown, daily_data>>

\* the fetch succeeds: the counters of every team name start at 0
SuccessRateFetchOk ==
    /\ view = "success_rate" /\ pc = "fetch"
    /\ \E doc \in DocsOf(SuccessRateDays) : results' = doc
    /\ team_metrics' = InitTeamMetrics
    /\ i' = 1
    /\ pc' = "fold"
    /\ UNCHANGED <<summary, ce_vars, mu_vars, fetch_count, svc_vars, ep_vars>>
    /\ UNCHANGED <<view, initialized, team_ids, team_id_to_name, upstream, j,
                   team_data, breakdown, daily_data, error>>

\* the breakdown of the entry or its entities is None: .get raises
SuccessRateRaises(entry) ==
    \/ TopLevel(entry).isNone
    \/ EntitiesOf(entry).isNone /\ team_ids # <<>>

SuccessRateEntryRaise ==
    /\ view = "success_rate" /\ pc = "fold" /\ i <= Len(results)
    /\ SuccessRateRaises(results[i])
    /\ error' = [type |-> "AttributeError", msg |-> <<>>]
    /\ pc' = "raised"
    /\ UNCHANGED <<sr_vars, ce_vars, mu_vars, fetch_count, svc_vars, ep_vars>>
    /\ UNCHANGED <<view, initialized, team_ids, team_id_to_name, upstream, results,
                   i, j, team_data, breakdown, daily_data>>

\* one entry: the counters of every team id are added to its name's counters
SuccessRateFoldEntry ==
    /\ view = "success_rate" /\ pc = "fold" /\ i <= Len(results)
    /\ ~SuccessRateRaises(results[i])
    /\ team_metrics' = AddTeamMetrics(team_metrics, EntitiesOf(results[i]).v, 1)
    /\ i' = i + 1
    /\ UNCHANGED <<summary, ce_vars, mu_vars, fetch_count, svc_vars, ep_vars>>
    /\ UNCHANGED <<view, pc, initialized, team_ids, team_id_to_name, upstream,
                   results, j, team_data, breakdown, daily_data, error>>

\* the summary is built, one element per team name, and returned
SuccessRateReturn ==
    /\ view = "success_rate" /\ pc = "fold" /\ i > Len(results)
    /\ summary' = [n \in 1..Len(TeamNames) |->
                      SummaryRow(TeamNames[n], team_metrics[TeamNames[n]])]
    /\ pc' = "done"
    /\ UNCHANGED <<team_metrics, ce_vars, mu_vars, fetch_count, svc_vars, ep_vars>>
    /\ UNCHANGED <<view, initialized, team_ids, team_id_to_name, upstream, results,
                   i, j, team_data, breakdown, daily_data, error>>

InitSuccessRate == view = "success_rate" /\ InitRequest

NextSuccessRate ==
    \/ GetTeamIds
    \/ SuccessRateFetchFail
    \/ SuccessRateFetchOk
    \/ SuccessRateEntryRaise
    \/ SuccessRateFoldEntry
    \/ SuccessRateReturn

SpecSuccessRate == InitSuccessRate /\ [][NextSuccessRate]_vars

---------------------------------------------------------------------------
(* CostEfficiencyService.fetch_cost_efficiency *)

\* spend is held as an integer number of millionths, the rounded results
\* round(x, 4) as an integer number of ten-thousandths
Millionths == 1000000
TenThousandths == 10000

CostMetrics(t, c) == [total_tokens |-> t, spend |-> c]

\* total_tokens and spend of rounding example: cost 9.999999 over 333333 tokens
ExampleCost == CostMetrics(333333, 9999999)

\* an entity that owns the keys ks
Owner(team_id, ks) == Ent(team_id, EmptyDict, Val(KeyUse(ks, EmptyDict)))

\* the absent parts of a cost-efficiency day, absent as how says
CostAbsentDays(how) ==
    LET Absent(filler) == [st |-> how, v |-> filler]
        Groups == Val(<<Grp("m1", Val(KeyUse({"k1"}, CostMetrics(MaxTok, 0))))>>)
    IN {[date |-> "d1", breakdown |-> Absent(EmptyBreakdown)],
        MkDay("d1", Absent(<<>>), Groups, Val(EmptyDict)),
        MkDay("d1", Val(<<Owner("t1", {"k1"})>>), Absent(<<>>), Val(EmptyDict)),
        MkDay("d1", Val(<<Ent("t1", EmptyDict, Absent(EmptyDict))>>), Groups,
              Val(EmptyDict)),
        MkDay("d1", Val(<<Ent("t1", EmptyDict, Absent(EmptyDict))>>), Val(<<>>),
              Val(EmptyDict)),
        MkDay("d1", Val(<<Owner("t1", {"k1"})>>), Val(<<Grp("m1", Absent(EmptyDict))>>),
              Val(EmptyDict)),
        MkDay("d1", Val(<<Owner("t1", {})>>), Val(<<Grp("m1", Absent(EmptyDict))>>),
              Val(EmptyDict))}

\* the days of the cost-efficiency documents
CostDays ==
    {MkDay("d1", Val(<<Owner("t1", {"k1"})>>),
           Val(<<Grp("m1", Val(KeyUse({"k1"}, CostMetrics(t, c))))>>), Val(EmptyDict)) :
        t \in Tok, c \in {0, 2500000}}
    \cup {MkDay("d1", Val(<<Owner("t1", {"k1"})>>),
                Val(<<Grp("m1", Val(KeyUse({"k1"}, ExampleCost)))>>), Val(EmptyDict)),
          MkDay("d1", Val(<<Owner("t1", {"k1"})>>),
                Val(<<Grp("m1", Val(KeyUse({"k2"}, CostMetrics(MaxTok, 2500000))))>>),
                Val(EmptyDict)),
          MkDay("d1", Val(<<Owner("t1", {"k1", "k2"})>>),
                Val(<<Grp("m1", Val(KeyUse({"k1", "k2"}, CostMetrics(MaxTok, 2500000)))),
                      Grp("m2", Val(KeyUse({"k2"}, CostMetrics(MaxTok, 1000000))))>>),
                Val(EmptyDict)),
          MkDay("d1", Val(<<Owner("t2", {"k2"}), Owner("t1", {"k1"})>>),
                Val(<<Grp("m1", Val(KeyUse({"k1", "k2"}, CostMetrics(MaxTok, 1000000))))>>),
                Val(EmptyDict)),
          MkDay("d1", Val(<<Owner("t1", {"k1"}), Owner("t2", {"k2"})>>),
                Val(<<Grp("m1", Val(KeyUse({"k1"}, CostMetrics(MaxTok, 1000000)))),
                      Grp("m2", Val(KeyUse({"k2"}, CostMetrics(MaxTok, 2500000))))>>),
                Val(EmptyDict)),
          \* one key listed under both teams
          MkDay("d1", Val(<<Owner("t1", {"k1"}), Owner("t2", {"k1"})>>),
                Val(<<Grp("m1", Val(KeyUse({"k1"}, CostMetrics(MaxTok, 0))))>>),
                Val(EmptyDict)),
          MkDay("d1", Val(<<>>),
                Val(<<Grp("m1", Val(KeyUse({"k1"}, CostMetrics(MaxTok, 0))))>>),
                Val(EmptyDict)),
          MkDay("d1", Val(<<Owner("t1", {"k1"})>>), Val(<<>>), Val(EmptyDict)),
          MkDay("d1", Val(<<Owner("t1", {"k1"})>>),
                Val(<<Grp("m1", Val(KeyUse({"k1"}, EmptyDict)))>>), Val(EmptyDict))}
    \cup CostAbsentDays("null") \cup CostAbsentDays("missing")

\* the sum of the values of a function with a finite domain
RECURSIVE SumFn(_)
SumFn(f) ==
    IF DOMAIN f = {} THEN 0
    ELSE LET x == CHOOSE y \in DOMAIN f : TRUE
         IN f[x] + SumFn([y \in DOMAIN f \ {x} |-> f[y]])

\* what the body of the model loop raises for one team and one model group:
\* None.keys() for the entity, `api_key in None` for the model group
PairError(entity, model_data) ==
    IF GetOpt(entity.api_key_breakdown, EmptyDict).isNone THEN "AttributeError"
    ELSE IF /\ DOMAIN GetOpt(entity.api_key_breakdown, EmptyDict).v # {}
            /\ GetOpt(model_data.api_key_breakdown, EmptyDict).isNone
         THEN "TypeError"
         ELSE ""

ModelGroupsOf(entry) == GetOpt(TopLevel(entry).v.model_groups, <<>>)

\* the exception one entry raises, "" when it raises none
CostEntryError(entry) ==
    IF TopLevel(entry).isNone THEN "AttributeError"
    ELSE IF team_ids = <<>> THEN ""
    ELSE IF EntitiesOf(entry).isNone \/ ModelGroupsOf(entry).isNone
         THEN "AttributeError"
    ELSE LET groups == ModelGroupsOf(entry).v
             Err(t, m) == PairError(EntityOf(EntitiesOf(entry).v, team_ids[t]), groups[m].v)
             bad == {p \in (1..Len(team_ids)) \X (1..Len(groups)) : Err(p[1], p[2]) # ""}
         IN IF bad = {} THEN ""
            ELSE LET first == CHOOSE p \in bad : \A q \in bad :
                                 p[1] < q[1] \/ (p[1] = q[1] /\ p[2] <= q[2])
                 IN Err(first[1], first[2])

\* the cell of a model is created by a key that is not in the model group too
add_model_usage_any_key(models, entity, model_name, model_data) ==
    LET akb == GetOpt(model_data.api_key_breakdown, EmptyDict).v
        keys == DOMAIN GetOpt(entity.api_key_breakdown, EmptyDict).v
        used == keys \cap DOMAIN akb
        tokens == SumFn([k \in used |-> Get(akb[k].metrics, "total_tokens", 0)])
        spend == SumFn([k \in used |-> Get(akb[k].metrics, "spend", 0)])
        at == IndexOf(models, model_name)
    IN IF keys = {} THEN models
       ELSE IF at = 0
       THEN Append(models, [k |-> model_name,
                            v |-> [total_tokens |-> tokens, total_cost |-> spend]])
       ELSE [models EXCEPT ![at].v = [total_tokens |-> @.total_tokens + tokens,
                                      total_cost |-> @.total_cost + spend]]

\* the loop over team_api_keys left at the first key found in the model group:
\* one key per team and model group is counted
add_model_usage_first_key(models, entity, model_name, model_data) ==
    LET akb == GetOpt(model_data.api_key_breakdown, EmptyDict).v
        keys == DOMAIN GetOpt(entity.api_key_breakdown, EmptyDict).v
        used == keys \cap DOMAIN akb
        first == CHOOSE k \in used : TRUE
        at == IndexOf(models, model_name)
    IN IF used = {} THEN models
       ELSE IF at = 0
       THEN Append(models, [k |-> model_name,
                            v |-> [total_tokens |-> Get(akb[first].metrics, "total_tokens", 0),
                                   total_cost |-> Get(akb[first].metrics, "spend", 0)]])
       ELSE [models EXCEPT ![at].v =
               [total_tokens |-> @.total_tokens + Get(akb[first].metrics, "total_tokens", 0),
                total_cost |-> @.total_cost + Get(akb[first].metrics, "spend", 0)]]

\* one model group for one team: every key of the team that is in the model
\* group adds the group's tokens and spend for the key to the team's cell
add_model_usage(models, entity, model_name, model_data) ==
    LET akb == GetOpt(model_data.api_key_breakdown, EmptyDict).v
        keys == DOMAIN GetOpt(entity.api_key_breakdown, EmptyDict).v
        used == keys \cap DOMAIN akb
        tokens == SumFn([k \in used |-> Get(akb[k].metrics, "total_tokens", 0)])
        spend == SumFn([k \in used |-> Get(akb[k].metrics, "spend", 0)])
        at == IndexOf(models, model_name)
    IN IF used = {} THEN models
       ELSE IF at = 0
       THEN Append(models, [k |-> model_name,
                            v |-> [total_tokens |-> tokens, total_cost |-> spend]])
       ELSE [models EXCEPT ![at].v = [total_tokens |-> @.total_tokens + tokens,
                                      total_cost |-> @.total_cost + spend]]

\* for model_name, model_data in models_breakdown.items(), from the m-th on
RECURSIVE AddModels(_, _, _, _)
AddModels(models, entity, groups, m) ==
    IF m > Len(groups) THEN models
    ELSE AddModels(add_model_usage(models, entity, groups[m].k, groups[m].v),
                   entity, groups, m + 1)

\* one team inside one entry: its dict is created on first sight
add_team_usage(tmd, entities, groups, team_id) ==
    LET name == get_team_name(team_id)
        seen == IF IndexOf(tmd, name) = 0 THEN Append(tmd, [k |-> name, v |-> <<>>])
                ELSE tmd
        at == IndexOf(seen, name)
    IN [seen EXCEPT ![at].v = AddModels(@, EntityOf(entities, team_id), groups, 1)]

\* for team_id in team_ids, from the n-th on
RECURSIVE AddTeams(_, _, _, _)
AddTeams(tmd, entities, groups, n) ==
    IF n > Len(team_ids) THEN tmd
    ELSE AddTeams(add_team_usage(tmd, entities, groups, team_ids[n]),
                  entities, groups, n + 1)

\* cost_per_1k without the total_tokens > 0 guard
cost_per_1k_unguarded(total_cost, total_tokens) ==
    RoundHalfEven(total_cost * ((1000 * TenThousandths) \div Millionths),
                  IF total_tokens = 0 THEN 1 ELSE total_tokens)

\* round((total_cost / total_tokens * 1000) if total_tokens > 0 else 0.0, 4)
\* (a total_cost of c millionths over n tokens is c * 10 / n ten-thousandths per 1k)
cost_per_1k(total_cost, total_tokens) ==
    IF total_tokens > 0
    THEN RoundHalfEven(total_cost * ((1000 * TenThousandths) \div Millionths),
                       total_tokens)
    ELSE 0

\* the cell of one team name and one model
Cell(team_name, model_name, metrics) ==
    [team |-> team_name,
     model |-> model_name,
     cost_per_1k_tokens |-> cost_per_1k(metrics.total_cost, metrics.total_tokens),
     total_cost |-> RoundHalfEven(metrics.total_cost, Millionths \div TenThousandths),
     total_tokens |-> metrics.total_tokens]

\* the cells of team_model_data, team by team and model by model, from the n-th team on
RECURSIVE CellsOf(_, _)
CellsOf(tmd, n) ==
    IF n > Len(tmd) THEN <<>>
    ELSE [m \in 1..Len(tmd[n].v) |-> Cell(tmd[n].k, tmd[n].v[m].k, tmd[n].v[m].v)]
         \o CellsOf(tmd, n + 1)

CostFetchFail ==
    /\ view = "cost_efficiency" /\ pc = "fetch"
    /\ \E msg \in Msgs :
         /\ upstream' = [failed |-> TRUE, msg |-> msg]
         /\ error' = WrapError("Error fetching team data: ", msg)
    /\ pc' = "raised"
    /\ UNCHANGED <<sr_vars, ce_vars, mu_vars, fetch_count, svc_vars, ep_vars>>
    /\ UNCHANGED <<view, initialized, team_ids, team_id_to_name, results, i, j,
                   team_data, breakdown, daily_data>>

CostFetchOk ==
    /\ view = "cost_efficiency" /\ pc = "fetch"
    /\ \E doc \in DocsOf(CostDays) : results' = doc
    /\ team_model_data' = <<>>
    /\ i' = 1
    /\ pc' = "fold"
    /\ UNCHANGED <<sr_vars, cells, mu_vars, fetch_count, svc_vars, ep_vars>>
    /\ UNCHANGED <<view, initialized, team_ids, team_id_to_name, upstream, j,
                   team_data, breakdown, daily_data, error>>

\* a part of the entry is None where the loops read it
CostEntryRaise ==
    /\ view = "cost_efficiency" /\ pc = "fold" /\ i <= Len(results)
    /\ CostEntryError(results[i]) # ""
    /\ error' = [type |-> CostEntryError(results[i]), msg |-> <<>>]
    /\ pc' = "raised"
    /\ UNCHANGED <<sr_vars, ce_vars, mu_vars, fetch_count, svc_vars, ep_vars>>
    /\ UNCHANGED <<view, initialized, team_ids, team_id_to_name, upstream, results,
                   i, j, team_data, breakdown, daily_data>>

\* one entry: every team id against every model group
CostFoldEntry ==
    /\ view = "cost_efficiency" /\ pc = "fold" /\ i <= Len(results)
    /\ CostEntryError(results[i]) = ""
    /\ team_model_data' = AddTeams(team_model_data, EntitiesOf(results[i]).v,
                                   ModelGroupsOf(results[i]).v, 1)
    /\ i' = i + 1
    /\ UNCHANGED <<sr_vars, cells, mu_vars, fetch_count, svc_vars, ep_vars>>
    /\ UNCHANGED <<view, pc, initialized, team_ids, team_id_to_name, upstream,
                   results, j, team_data, breakdown, daily_data, error>>

\* the result list is built and returned
CostReturn ==
    /\ view = "cost_efficiency" /\ pc = "fold" /\ i > Len(results)
    /\ cells' = CellsOf(team_model_data, 1)
    /\ pc' = "done"
    /\ UNCHANGED <<sr_vars, team_model_data, mu_vars, fetch_count, svc_vars, ep_vars>>
    /\ UNCHANGED <<view, initialized, team_ids, team_id_to_name, upstream, results,
                   i, j, team_data, breakdown, daily_data, error>>

InitCost == view = "cost_efficiency" /\ InitRequest

NextCost ==
    \/ GetTeamIds
    \/ CostFetchFail
    \/ CostFetchOk
    \/ CostEntryRaise
    \/ CostFoldEntry
    \/ CostReturn

SpecCost == InitCost /\ [][NextCost]_vars

---------------------------------------------------------------------------
(* ModelUsageService.fetch_model_usage *)

ModelNames == {"m1", "m2"}

\* a model of one day: breakdown["models"][model_name] with its metrics
Mdl(model_name, metrics) == [k |-> model_name, v |-> [metrics |-> metrics]]

\* a day with its breakdown by model and its breakdown by model group
MkModelGroupDay(date, models, model_groups) ==
    [date |-> date,
     breakdown |-> Val([models |-> models, model_groups |-> model_groups])]

\* a day without a breakdown by model group
MkModelDay(date, models) == MkModelGroupDay(date, models, Missing(<<>>))

\* the {} that entry.get("breakdown", {}) defaults to
EmptyModelsBreakdown == [models |-> Missing(<<>>), model_groups |-> Missing(<<>>)]

\* the days with up to two models, in either order, with every token count;
\* a model without a total_tokens counter; days whose breakdown by model group
\* agrees with, differs from or stands without the breakdown by model; a
\* breakdown or a models map that is None or missing
ModelDays ==
    {MkModelDay("d1", Val(<<>>))}
    \cup {MkModelDay("d1", Val(<<Mdl(m, [total_tokens |-> t])>>)) :
            m \in ModelNames, t \in Tok}
    \cup {MkModelDay("d1", Val(<<Mdl(m[1], [total_tokens |-> t[1]]),
                                 Mdl(m[2], [total_tokens |-> t[2]])>>)) :
            m \in {<<"m1", "m2">>, <<"m2", "m1">>}, t \in Tok \X Tok}
    \cup {MkModelDay("d1", Val(<<Mdl("m1", EmptyDict)>>))}
    \cup {MkModelGroupDay("d1", Val(<<Mdl("m1", [total_tokens |-> MaxTok])>>),
                                Val(<<Mdl("m1", [total_tokens |-> g])>>)) :
            g \in {0, MaxTok}}
    \cup {MkModelGroupDay("d1", Val(<<>>), Val(<<Mdl("m1", [total_tokens |-> MaxTok])>>))}
    \cup {MkModelDay("d1", [st |-> how, v |-> <<>>]) : how \in {"null", "missing"}}
    \cup {[date |-> "d1", breakdown |-> [st |-> how, v |-> EmptyModelsBreakdown]] :
            how \in {"null", "missing"}}

\* the name mappings of the model mapping service: none, both models under
\* one display name, one model under the other's internal name
NameMappings ==
    {EmptyDict, [m \in ModelNames |-> "M"], [m \in {"m2"} |-> "m1"]}

\* get_display_name: the mapped name, or the internal name without a mapping
get_display_name(mapping, internal_name) == Get(mapping, internal_name, internal_name)

\* entry.get("breakdown", {}).get("models", {})
ModelsTopLevel(entry) == GetOpt(entry.breakdown, EmptyModelsBreakdown)
ModelsOf(entry) == GetOpt(ModelsTopLevel(entry).v.models, <<>>)

\* the breakdown of the entry or its models is None: .get / .items() raises
ModelUsageRaises(entry) == ModelsTopLevel(entry).isNone \/ ModelsOf(entry).isNone

\* model_totals[display_name] = total_tokens: the last record seen replaces
\* the total
add_model_total_overwriting(totals, display_name, total_tokens) ==
    IF IndexOf(totals, display_name) = 0
    THEN Append(totals, [k |-> display_name, v |-> total_tokens])
    ELSE [totals EXCEPT ![IndexOf(totals, display_name)].v = total_tokens]

\* model_totals[display_name] = model_totals.get(display_name, 0) + total_tokens
add_model_total(totals, display_name, total_tokens) ==
    IF IndexOf(totals, display_name) = 0
    THEN Append(totals, [k |-> display_name, v |-> total_tokens])
    ELSE [totals EXCEPT ![IndexOf(totals, display_name)].v = @ + total_tokens]

\* for model_name, model_data in models_breakdown.items(), from the n-th on
RECURSIVE AddModelTotals(_, _, _, _)
AddModelTotals(totals, mapping, models_breakdown, n) ==
    IF n > Len(models_breakdown) THEN totals
    ELSE AddModelTotals(
           add_model_total(totals,
                           get_display_name(mapping, models_breakdown[n].k),
                           Get(models_breakdown[n].v.metrics, "total_tokens", 0)),
           mapping, models_breakdown, n + 1)

\* {name: tokens for name, tokens in model_totals.items() if tokens > 0}
filter_positive(totals) == SelectSeq(totals, LAMBDA item : item.v > 0)

\* sorted(items, key=tokens)[::-1]: descending, with items of equal tokens in
\* the reverse of the order they have in `items`
RECURSIVE sorted_by_tokens_then_reversed(_)
sorted_by_tokens_then_reversed(items) ==
    IF items = <<>> THEN <<>>
    ELSE LET rest == sorted_by_tokens_then_reversed(SubSeq(items, 1, Len(items) - 1))
             item == items[Len(items)]
             before == {n \in 1..Len(rest) : rest[n].v > item.v}
             at == IF before = {} THEN 0 ELSE Max(before)
         IN SubSeq(rest, 1, at) \o <<item>> \o SubSeq(rest, at + 1, Len(rest))

\* sorted(items, key=tokens, reverse=True): descending, and stable, so items
\* of equal tokens keep the order they have in `items`
RECURSIVE sorted_by_tokens(_)
sorted_by_tokens(items) ==
    IF items = <<>> THEN <<>>
    ELSE LET rest == sorted_by_tokens(SubSeq(items, 1, Len(items) - 1))
             item == items[Len(items)]
             before == {n \in 1..Len(rest) : rest[n].v >= item.v}
             at == IF before = {} THEN 0 ELSE Max(before)
         IN SubSeq(rest, 1, at) \o <<item>> \o SubSeq(rest, at + 1, Len(rest))

\* fetch_daily_activity raises RuntimeError: nothing catches it
ModelUsageFetchFail ==
    /\ view = "model_usage" /\ pc = "fetch"
    /\ \E msg \in Msgs :
         /\ upstream' = [failed |-> TRUE, msg |-> msg]
         /\ error' = [type |-> "RuntimeError", msg |-> msg]
    /\ pc' = "raised"
    /\ UNCHANGED <<sr_vars, ce_vars, mu_vars, fetch_count, svc_vars, ep_vars>>
    /\ UNCHANGED <<view, initialized, team_ids, team_id_to_name, results, i, j,
                   team_data, breakdown, daily_data>>

\* the fetch succeeds: model_totals starts empty
ModelUsageFetchOk ==
    /\ view = "model_usage" /\ pc = "fetch"
    /\ \E doc \in DocsOf(ModelDays) : results' = doc
    /\ \E mapping \in NameMappings : model_mapping' = mapping
    /\ model_totals' = <<>>
    /\ i' = 1
    /\ pc' = "fold"
    /\ UNCHANGED <<sr_vars, ce_vars, model_usage, fetch_count, svc_vars, ep_vars>>
    /\ UNCHANGED <<view, initialized, team_ids, team_id_to_name, upstream, j,
                   team_data, breakdown, daily_data, error>>

ModelUsageEntryRaise ==
    /\ view = "model_usage" /\ pc = "fold" /\ i <= Len(results)
    /\ ModelUsageRaises(results[i])
    /\ error' = [type |-> "AttributeError", msg |-> <<>>]
    /\ pc' = "raised"
    /\ UNCHANGED <<sr_vars, ce_vars, mu_vars, fetch_count, svc_vars, ep_vars>>
    /\ UNCHANGED <<view, initialized, team_ids, team_id_to_name, upstream, results,
                   i, j, team_data, breakdown, daily_data>>

\* one entry: the tokens of every model are added to its display name's total
ModelUsageFoldEntry ==
    /\ view = "model_usage" /\ pc = "fold" /\ i <= Len(results)
    /\ ~ModelUsageRaises(results[i])
    /\ model_totals' = AddModelTotals(model_totals, model_mapping,
                                      ModelsOf(results[i]).v, 1)
    /\ i' = i + 1
    /\ UNCHANGED <<sr_vars, ce_vars, model_mapping, model_usage, fetch_count, svc_vars, ep_vars>>
    /\ UNCHANGED <<view, pc, initialized, team_ids, team_id_to_name, upstream,
                   results, j, team_data, breakdown, daily_data, error>>

\* the totals are filtered, sorted and returned
ModelUsageReturn ==
    /\ view = "model_usage" /\ pc = "fold" /\ i > Len(results)
    /\ model_usage' = sorted_by_tokens(filter_positive(model_totals))
    /\ pc' = "done"
    /\ UNCHANGED <<sr_vars, ce_vars, model_mapping, model_totals, fetch_count, svc_vars, ep_vars>>
    /\ UNCHANGED <<view, initialized, team_ids, team_id_to_name, upstream, results,
                   i, j, team_data, breakdown, daily_data, error>>

InitModelUsage == view = "model_usage" /\ InitRequest

NextModelUsage ==
    \/ GetTeamIds
    \/ ModelUsageFetchFail
    \/ ModelUsageFetchOk
    \/ ModelUsageEntryRaise
    \/ ModelUsageFoldEntry
    \/ ModelUsageReturn

SpecModelUsage == InitModelUsage /\ [][NextModelUsage]_vars

---------------------------------------------------------------------------
(* TeamService called directly: fetch_teams, get_team_ids, get_team_name *)

\* longest sequence of calls made on one TeamService
MaxCalls == 3

\* the aliases of a team: a name, the empty string, None
Aliases == {"A", "", NoAlias}

Team(team_id, team_alias) == [team_id |-> team_id, team_alias |-> team_alias]

\* the team lists the upstream answers a fetch_teams with: no team, one team,
\* two teams, with every alias; a team whose id is the empty string
DirectoryLists ==
    {<<>>}
    \cup {<<Team("t1", a)>> : a \in Aliases}
    \cup {<<Team("t1", a), Team("t2", b)>> : a \in Aliases, b \in {"A", NoAlias}}
    \cup {<<Team("", NoAlias)>>}

\* the ids get_team_name is asked for: listed ones, an unknown one, the empty one
TeamIdArgs == {"t1", "t2", "t3", ""}

\* the calls of the service
Ops == {[op |-> "fetch_teams", arg |-> ""], [op |-> "get_team_ids", arg |-> ""]}
       \cup {[op |-> "get_team_name", arg |-> id] : id \in TeamIdArgs}

\* [team.model_dump() for team in self._teams], on the fields read here
model_dump(ts) == [n \in 1..Len(ts) |-> Team(ts[n].team_id, ts[n].team_alias)]

\* `if not self._initialized` answered True whatever the flag
needs_fetch_always(is_initialized) == TRUE

\* `if self._initialized: return ...` / `if not self._initialized: self.fetch_teams()`
needs_fetch(is_initialized) == ~is_initialized

\* the result of a call, read from the state s of the service
ResultOf(call, s) ==
    [op |-> call.op, arg |-> call.arg, raised |-> FALSE,
     teams |-> IF call.op = "fetch_teams" THEN model_dump(s.teams) ELSE <<>>,
     team_ids |-> IF call.op = "get_team_ids" THEN s.team_ids ELSE <<>>,
     name |-> IF call.op = "get_team_name"
              THEN Get(s.team_id_to_name, call.arg, call.arg) ELSE ""]

Raised(call) ==
    [op |-> call.op, arg |-> call.arg, raised |-> TRUE,
     teams |-> <<>>, team_ids |-> <<>>, name |-> ""]

\* a call that finds the service initialised, or that fetches the directory
\* first: lines 34-39 run before the result is read
ServiceCall ==
    /\ view = "team_service" /\ Len(history) < MaxCalls
    /\ \E call \in Ops :
         IF needs_fetch(initialized)
         THEN \E fetched \in DirectoryLists :
                /\ fetch_count' = fetch_count + 1
                /\ teams' = fetched
                /\ team_ids' = TeamIdsOf(fetched)
                /\ team_id_to_name' = TeamIdToNameOf(fetched)
                /\ initialized' = TRUE
                /\ history' = Append(history,
                      ResultOf(call, [teams |-> fetched,
                                      team_ids |-> TeamIdsOf(fetched),
                                      team_id_to_name |-> TeamIdToNameOf(fetched)]))
         ELSE /\ history' = Append(history,
                      ResultOf(call, [teams |-> teams, team_ids |-> team_ids,
                                      team_id_to_name |-> team_id_to_name]))
              /\ UNCHANGED <<fetch_count, teams, team_ids, team_id_to_name, initialized>>
    /\ UNCHANGED <<upstream, error>>
    /\ UNCHANGED <<view, pc, results, i, j, team_data, breakdown, daily_data,
                   other_projectors, callers, ep_vars>>

\* a fetch_teams that sets _initialized before the upstream call of line 34:
\* the raising call leaves an empty directory that counts as fetched
ServiceCallRaise_initializing ==
    /\ view = "team_service" /\ Len(history) < MaxCalls
    /\ needs_fetch(initialized)
    /\ \E call \in Ops : history' = Append(history, Raised(call))
    /\ fetch_count' = fetch_count + 1
    /\ upstream' = [failed |-> TRUE, msg |-> <<>>]
    /\ error' = [type |-> "RuntimeError", msg |-> <<>>]
    /\ initialized' = TRUE
    /\ UNCHANGED <<teams, team_ids, team_id_to_name>>
    /\ UNCHANGED <<view, pc, results, i, j, team_data, breakdown, daily_data,
                   other_projectors, callers, ep_vars>>

\* a call on the uninitialised service whose upstream fetch raises at line 34:
\* nothing is cached and the exception leaves the call
ServiceCallRaise ==
    /\ view = "team_service" /\ Len(history) < MaxCalls
    /\ needs_fetch(initialized)
    /\ \E call \in Ops : history' = Append(history, Raised(call))
    /\ fetch_count' = fetch_count + 1
    /\ upstream' = [failed |-> TRUE, msg |-> <<>>]
    /\ error' = [type |-> "RuntimeError", msg |-> <<>>]
    /\ UNCHANGED <<teams, team_ids, team_id_to_name, initialized>>
    /\ UNCHANGED <<view, pc, results, i, j, team_data, breakdown, daily_data,
                   other_projectors, callers, ep_vars>>

InitTeamService == view = "team_service" /\ InitRequest

NextTeamService == ServiceCall \/ ServiceCallRaise

SpecTeamService == InitTeamService /\ [][NextTeamService]_vars

---------------------------------------------------------------------------
(* TeamService under concurrent callers: one call per caller, line by line *)

\* the calls the concurrent callers make
ConcurrentOps ==
    {[op |-> "fetch_teams", arg |-> ""], [op |-> "get_team_ids", arg |-> ""],
     [op |-> "get_team_name", arg |-> "t1"]}

\* the team lists the upstream answers the concurrent fetches with
ConcurrentLists == {<<Team("t1", "A")>>, <<Team("t1", NoAlias), Team("t2", "A")>>}

\* the caller is at the position, inside a call on the service
At(c, position) == view = "concurrent" /\ callers[c].pc = position

\* the caller moves to the position; its other locals are kept
Goto(c, position) == callers' = [callers EXCEPT ![c].pc = position]

\* what no line of fetch_teams writes
service_frame ==
    <<view, pc, upstream, results, i, j, team_data, breakdown, daily_data, error,
      other_projectors, history, ep_vars>>

\* a caller enters fetch_teams, get_team_ids or get_team_name
CallerStart(c) ==
    /\ At(c, "idle")
    /\ \E call \in ConcurrentOps :
         callers' = [callers EXCEPT
                       ![c].op = call.op, ![c].arg = call.arg,
                       ![c].pc = IF call.op = "fetch_teams" THEN "31" ELSE "49"]
    /\ UNCHANGED <<initialized, teams, team_ids, team_id_to_name, fetch_count>>
    /\ UNCHANGED service_frame

\* lines 49 and 63: `if not self._initialized: self.fetch_teams()`
OuterCheck(c) ==
    /\ At(c, "49")
    /\ Goto(c, IF needs_fetch(initialized) THEN "31" ELSE "51")
    /\ UNCHANGED <<initialized, teams, team_ids, team_id_to_name, fetch_count>>
    /\ UNCHANGED service_frame

\* line 31: `if self._initialized: return ...`
FetchTeamsCheck(c) ==
    /\ At(c, "31")
    /\ callers' = [callers EXCEPT
                     ![c].saw_uninitialized = needs_fetch(initialized),
                     ![c].pc = IF needs_fetch(initialized) THEN "34" ELSE "40"]
    /\ UNCHANGED <<initialized, teams, team_ids, team_id_to_name, fetch_count>>
    /\ UNCHANGED service_frame

\* line 34 with a look at the flag before the upstream call: no fetch when
\* another caller has initialised the service meanwhile
UpstreamFetch_rechecked(c) ==
    /\ At(c, "34")
    /\ IF initialized
       THEN Goto(c, "40") /\ UNCHANGED fetch_count
       ELSE /\ \E fetched \in ConcurrentLists :
                 callers' = [callers EXCEPT ![c].fetched = fetched, ![c].pc = "34s"]
            /\ fetch_count' = fetch_count + 1
    /\ UNCHANGED <<initialized, teams, team_ids, team_id_to_name>>
    /\ UNCHANGED service_frame

\* line 34, right-hand side: self.api_client.fetch_teams()
UpstreamFetch(c) ==
    /\ At(c, "34")
    /\ \E fetched \in ConcurrentLists :
         callers' = [callers EXCEPT ![c].fetched = fetched, ![c].pc = "34s"]
    /\ fetch_count' = fetch_count + 1
    /\ UNCHANGED <<initialized, teams, team_ids, team_id_to_name>>
    /\ UNCHANGED service_frame

\* line 34, assignment: self._teams = ...
StoreTeams(c) ==
    /\ At(c, "34s")
    /\ teams' = callers[c].fetched
    /\ Goto(c, "35")
    /\ UNCHANGED <<initialized, team_ids, team_id_to_name, fetch_count>>
    /\ UNCHANGED service_frame

\* line 35: self._team_ids = [team.team_id for team in self._teams]
StoreTeamIds(c) ==
    /\ At(c, "35")
    /\ team_ids' = TeamIdsOf(teams)
    /\ Goto(c, "36")
    /\ UNCHANGED <<initialized, teams, team_id_to_name, fetch_count>>
    /\ UNCHANGED service_frame

\* lines 36-38: self._team_id_to_name = {...}
StoreTeamNames(c) ==
    /\ At(c, "36")
    /\ team_id_to_name' = TeamIdToNameOf(teams)
    /\ Goto(c, "39")
    /\ UNCHANGED <<initialized, teams, team_ids, fetch_count>>
    /\ UNCHANGED service_frame

\* line 39: self._initialized = True
SetInitialized(c) ==
    /\ At(c, "39")
    /\ initialized' = TRUE
    /\ Goto(c, "40")
    /\ UNCHANGED <<teams, team_ids, team_id_to_name, fetch_count>>
    /\ UNCHANGED service_frame

\* lines 32 and 40: return [team.model_dump() for team in self._teams]; the
\* result is dropped when get_team_ids or get_team_name made the call
FetchTeamsReturn(c) ==
    /\ At(c, "40")
    /\ callers' = [callers EXCEPT
                     ![c].teams = IF callers[c].op = "fetch_teams"
                                  THEN model_dump(teams) ELSE <<>>,
                     ![c].pc = IF callers[c].op = "fetch_teams" THEN "done" ELSE "51"]
    /\ UNCHANGED <<initialized, teams, team_ids, team_id_to_name, fetch_count>>
    /\ UNCHANGED service_frame

\* lines 51 and 65: return self._team_ids / self._team_id_to_name.get(team_id, team_id)
OuterReturn(c) ==
    /\ At(c, "51")
    /\ callers' = [callers EXCEPT
                     ![c].team_ids = IF callers[c].op = "get_team_ids"
                                     THEN team_ids ELSE <<>>,
                     ![c].name = IF callers[c].op = "get_team_name"
                                 THEN get_team_name(callers[c].arg) ELSE "",
                     ![c].pc = "done"]
    /\ UNCHANGED <<initialized, teams, team_ids, team_id_to_name, fetch_count>>
    /\ UNCHANGED service_frame

InitConcurrent == view = "concurrent" /\ InitRequest

NextConcurrent ==
    \E c \in Callers :
        \/ CallerStart(c)
        \/ OuterCheck(c)
        \/ FetchTeamsCheck(c)
        \/ UpstreamFetch(c)
        \/ StoreTeams(c)
        \/ StoreTeamIds(c)
        \/ StoreTeamNames(c)
        \/ SetInitialized(c)
        \/ FetchTeamsReturn(c)
        \/ OuterReturn(c)

SpecConcurrent == InitConcurrent /\ [][NextConcurrent]_vars

---------------------------------------------------------------------------
(* execute_date_range_endpoint over a service and LiteLLMAPI *)

\* a date parameter is None or a text; of the text "2024-01-DD" the model keeps
\* the day part, over these characters and up to two of them
DateChars == {"0", "1", "2", "x"}

DateTexts == UNION {[1..n -> DateChars] : n \in 0..2}

DateParams == {Null(<<>>)} \cup {Val(text) : text \in DateTexts}

\* the days on which a request may arrive
Todays == {2, 12}

Digit(c) == IF c = "0" THEN 0 ELSE IF c = "1" THEN 1 ELSE IF c = "2" THEN 2 ELSE -1

\* datetime.strptime(v, "%Y-%m-%d") on the day part: one or two digits that
\* make a day of the month, else ValueError
strptime(text) ==
    LET digits == Len(text) \in 1..2 /\ \A n \in 1..Len(text) : Digit(text[n]) >= 0
        day == IF Len(text) = 1 THEN Digit(text[1])
               ELSE 10 * Digit(text[1]) + Digit(text[2])
    IN IF digits /\ day >= 1 /\ day <= 31 THEN [ok |-> TRUE, day |-> day]
       ELSE [ok |-> FALSE, day |-> 0]

\* the validators of DateRangeParams.start_date, in order; the first that
\* raises ends the validation of the field
start_date_errors(req) ==
    IF req.start_date.st = "null" THEN <<>>
    ELSE IF ~strptime(req.start_date.v).ok
         THEN <<"start_date: Date must be in YYYY-MM-DD format">>
    ELSE IF strptime(req.start_date.v).day > req.today
         THEN <<"start_date: start_date cannot be in the future">>
    ELSE <<>>

\* the validators of DateRangeParams.end_date; info.data holds start_date
\* only when start_date was valid
end_date_errors(req) ==
    IF req.end_date.st = "null" THEN <<>>
    ELSE IF ~strptime(req.end_date.v).ok
         THEN <<"end_date: Date must be in YYYY-MM-DD format">>
    ELSE IF strptime(req.end_date.v).day > req.today
         THEN <<"end_date: end_date cannot be in the future">>
    ELSE IF /\ req.start_date.st # "null"
            /\ start_date_errors(req) = <<>>
            /\ strptime(req.end_date.v).day < strptime(req.start_date.v).day
         THEN <<"end_date: end_date must not be before start_date">>
    ELSE <<>>

\* DateRangeParams(start_date=..., end_date=...): the errors of both fields
validation_errors(req) == start_date_errors(req) \o end_date_errors(req)

\* parse_date_range: the error it raises ("" when none), and the two datetimes
parse_error(req) ==
    IF req.end_date.st # "null" /\ ~strptime(req.end_date.v).ok
    THEN "Invalid end_date format. Expected YYYY-MM-DD"
    ELSE IF req.start_date.st # "null" /\ ~strptime(req.start_date.v).ok
    THEN "Invalid start_date format. Expected YYYY-MM-DD"
    ELSE ""

parse_date_range(req) ==
    LET end_dt == IF req.end_date.st = "null"
                  THEN [day |-> req.today, time |-> "now"]
                  ELSE [day |-> strptime(req.end_date.v).day, time |-> "23:59:59"]
        start_dt == IF req.start_date.st = "null"
                    THEN [day |-> end_dt.day - 1, time |-> end_dt.time]
                    ELSE [day |-> strptime(req.start_date.v).day, time |-> "00:00:00"]
    IN [start_dt |-> start_dt, end_dt |-> end_dt]

\* dt.strftime("%Y.%m.%d") and dt.isoformat()
format_date_for_api(dt) == [format |-> "%Y.%m.%d", day |-> dt.day]
format_date_for_api_end(dt) == [format |-> "isoformat", day |-> dt.day, time |-> dt.time]

\* the service methods the endpoints hand to execute_date_range_endpoint
Services == {"totals", "timeseries", "success_rate", "cost_efficiency", "model_usage"}

\* the prefix of the RuntimeError a service re-raises ("" when it catches none)
ErrorPrefix(service) ==
    IF service = "cost_efficiency" THEN "Error fetching team data: "
    ELSE IF service = "model_usage" THEN ""
    ELSE "Error fetching team token usage: "

\* what the gateway answers the activity request with: status 401, a failed
\* request, or a JSON body with or without metadata.total_pages
MaxPages == 2

Answers ==
    {[kind |-> "401", total_pages |-> 0, msg |-> <<>>],
     [kind |-> "no_metadata", total_pages |-> 0, msg |-> <<>>]}
    \cup {[kind |-> "request_exception", total_pages |-> 0, msg |-> m] : m \in Msgs}
    \cup {[kind |-> "json", total_pages |-> n, msg |-> <<>>] : n \in 0..MaxPages}

\* LiteLLMAPI.fetch_team_daily_activity with a list of team ids: the exception
\* that leaves it ("" when it returns the validated response)
fetch_team_daily_activity(answer) ==
    IF answer.kind = "401"
    THEN [type |-> "ValueError", msg |-> <<"Invalid API key.">>]
    ELSE IF answer.kind = "request_exception"
    THEN [type |-> "RuntimeError",
          msg |-> <<"Error fetching activity for multiple teams", ":", " ">> \o answer.msg]
    ELSE IF answer.kind = "no_metadata"
    THEN [type |-> "KeyError", msg |-> <<"metadata">>]
    ELSE IF answer.total_pages > 1
    THEN [type |-> "SystemExit", msg |-> <<"1">>]    \* sys.exit(1)
    ELSE NoOutcome

\* the classes `except Exception` catches: SystemExit is a BaseException only
Exceptions ==
    {"RuntimeError", "ValueError", "KeyError", "AttributeError", "TypeError", "IndexError"}

\* what no line of the endpoint, the service method or the client writes
endpoint_frame ==
    <<view, initialized, team_ids, team_id_to_name, upstream, results, i, j,
      team_data, breakdown, daily_data, error, other_projectors, fetch_count,
      svc_vars, served>>

\* the request arrives
EndpointReceive ==
    /\ view = "endpoint" /\ pc = "start"
    /\ \E start_date \in DateParams, end_date \in DateParams, today \in Todays :
         request' = [start_date |-> start_date, end_date |-> end_date, today |-> today]
    /\ \E service \in Services : response' = [response EXCEPT !.service = service]
    /\ pc' = "validate"
    /\ UNCHANGED endpoint_frame

\* lines 42-51: the parameters are invalid, HTTPException 400
EndpointReject ==
    /\ view = "endpoint" /\ pc = "validate"
    /\ validation_errors(request) # <<>> \/ parse_error(request) # ""
    /\ response' = [response EXCEPT
                      !.status = 400,
                      !.detail = IF validation_errors(request) # <<>>
                                 THEN validation_errors(request)
                                 ELSE <<parse_error(request)>>]
    /\ pc' = "responded"
    /\ UNCHANGED <<request, endpoint_frame>>

\* lines 55-58: the service method is called with the formatted dates
EndpointCallService ==
    /\ view = "endpoint" /\ pc = "validate"
    /\ validation_errors(request) = <<>> /\ parse_error(request) = ""
    /\ response' = [response EXCEPT
                      !.called = TRUE,
                      !.args = [start_date |->
                                   format_date_for_api(parse_date_range(request).start_dt),
                                end_date |->
                                   format_date_for_api_end(parse_date_range(request).end_dt)]]
    /\ pc' = "client"
    /\ UNCHANGED <<request, endpoint_frame>>

\* the service asks the client for the activity document
ClientFetch ==
    /\ view = "endpoint" /\ pc = "client"
    /\ \E answer \in Answers :
         response' = [response EXCEPT !.answer = answer,
                                      !.client = fetch_team_daily_activity(answer)]
    /\ pc' = "service"
    /\ UNCHANGED <<request, endpoint_frame>>

\* the service method ends: a RuntimeError of the client is re-raised with the
\* service's prefix, any other exception passes, a fetched document is folded
\* into the result or the fold raises on a part that is None
ServiceEnds ==
    /\ view = "endpoint" /\ pc = "service"
    /\ \E folded \in {"", "AttributeError", "TypeError"} :
         response' = [response EXCEPT !.outcome =
            IF response.client.type = "RuntimeError" /\ ErrorPrefix(response.service) # ""
            THEN WrapError(ErrorPrefix(response.service), response.client.msg)
            ELSE IF response.client.type # "" THEN response.client
            ELSE [type |-> folded, msg |-> <<>>]]
    /\ pc' = "endpoint"
    /\ UNCHANGED <<request, endpoint_frame>>

\* lines 54-62: the result is returned, or the exception becomes 502 or 500;
\* an exception that is no Exception leaves the endpoint as it is
EndpointRespond ==
    /\ view = "endpoint" /\ pc = "endpoint"
    /\ IF response.outcome.type = ""
       THEN response' = [response EXCEPT !.status = 200, !.body = "result"] /\ pc' = "responded"
       ELSE IF response.outcome.type = "RuntimeError"
       THEN /\ response' = [response EXCEPT !.status = 502, !.detail = response.outcome.msg]
            /\ pc' = "responded"
       ELSE IF response.outcome.type \in Exceptions
       THEN /\ response' = [response EXCEPT
                              !.status = 500,
                              !.detail = <<"Unexpected error: ">> \o response.outcome.msg]
            /\ pc' = "responded"
       ELSE /\ response' = [response EXCEPT !.exited = TRUE]
            /\ pc' = "exited"
    /\ UNCHANGED <<request, endpoint_frame>>

InitEndpoint == view = "endpoint" /\ InitRequest

NextEndpoint ==
    \/ EndpointReceive
    \/ EndpointReject
    \/ EndpointCallService
    \/ ClientFetch
    \/ ServiceEnds
    \/ EndpointRespond

SpecEndpoint == InitEndpoint /\ [][NextEndpoint]_vars

---------------------------------------------------------------------------
(* The requests of one process: dependency_config builds the services *)

\* the requests a process is followed over
MaxRequests == 3

\* what no step of the process writes
process_frame ==
    <<view, results, i, j, team_data, breakdown, daily_data, other_projectors,
      history, callers, request>>

\* a request arrives: Depends(get_team_service) calls get_team_service, which
\* is not cached and returns TeamService(api_client), a service whose
\* __init__ sets empty caches; get_api_client alone is an lru_cache singleton
ProcessInject ==
    /\ view = "process" /\ pc = "start" /\ served < MaxRequests
    /\ \E service \in Services : response' = [NoResponse EXCEPT !.service = service]
    /\ teams' = <<>>
    /\ team_ids' = <<>>
    /\ team_id_to_name' = EmptyDict
    /\ initialized' = FALSE
    /\ pc' = "service"
    /\ UNCHANGED <<upstream, error, fetch_count, served, process_frame>>

\* the service method starts with team_service.get_team_ids(); the
\* get_team_name calls that follow find the service initialised
ProcessGetTeamIds ==
    /\ view = "process" /\ pc = "service"
    /\ IF needs_fetch(initialized)
       THEN \E fetched \in DirectoryLists :
              /\ fetch_count' = fetch_count + 1
              /\ teams' = fetched
              /\ team_ids' = TeamIdsOf(fetched)
              /\ team_id_to_name' = TeamIdToNameOf(fetched)
              /\ initialized' = TRUE
       ELSE UNCHANGED <<fetch_count, teams, team_ids, team_id_to_name, initialized>>
    /\ response' = [response EXCEPT !.called = TRUE]
    /\ pc' = "respond"
    /\ UNCHANGED <<upstream, error, served, process_frame>>

\* the upstream fetch of the directory raises
ProcessGetTeamIdsRaise ==
    /\ view = "process" /\ pc = "service"
    /\ needs_fetch(initialized)
    /\ fetch_count' = fetch_count + 1
    /\ upstream' = [failed |-> TRUE, msg |-> <<>>]
    /\ error' = [type |-> "RuntimeError", msg |-> <<>>]
    /\ response' = [response EXCEPT !.called = TRUE,
                                     !.outcome = [type |-> "RuntimeError", msg |-> <<>>]]
    /\ pc' = "respond"
    /\ UNCHANGED <<teams, team_ids, team_id_to_name, initialized, served, process_frame>>

\* the response is sent and the request's services are dropped
ProcessRespond ==
    /\ view = "process" /\ pc = "respond"
    /\ served' = served + 1
    /\ pc' = "start"
    /\ UNCHANGED <<initialized, team_ids, team_id_to_name, teams, upstream, error,
                   fetch_count, response, process_frame>>

InitProcess == view = "process" /\ InitRequest

NextProcess ==
    \/ ProcessInject
    \/ ProcessGetTeamIds
    \/ ProcessGetTeamIdsRaise
    \/ ProcessRespond

SpecProcess == InitProcess /\ [][NextProcess]_vars

---------------------------------------------------------------------------
(* Any request *)

Init == view \in Views /\ InitRequest

Next == NextTotals \/ NextTimeSeries

Spec == Init /\ [][Next]_vars

---------------------------------------------------------------------------
(* Properties of TokenAggregationService *)

Range(seq) == {seq[n] : n \in 1..Len(seq)}

RECURSIVE SumSeq(_)
SumSeq(seq) == IF seq = <<>> THEN 0 ELSE Head(seq) + SumSeq(Tail(seq))

\* what a result says: per team name the total, and per (api_key, model_name)
\* pair the three token totals
TeamTotals(td) ==
    [name \in DOMAIN td |->
        [total_tokens |-> td[name].total_tokens,
         pairs |-> UNION {{<<key.api_key, m.model_name, m.total_tokens,
                             m.prompt_tokens, m.completion_tokens>> :
                               m \in Range(key.models)} :
                            key \in Range(td[name].api_keys)}]]

Permute(entries, perm) == [n \in 1..Len(entries) |-> entries[perm[n]]]

\* the positions <<n, m>> of the (api_key, model_name) pair in an api_keys list
PairAt(api_keys, api_key, model_name) ==
    {nm \in UNION {{<<n, m>> : m \in 1..Len(api_keys[n].models)} :
                      n \in 1..Len(api_keys)} :
        /\ api_keys[nm[1]].api_key = api_key
        /\ api_keys[nm[1]].models[nm[2]].model_name = model_name}

\* the request has folded entity j of entry i, an entity of a requested team
FoldedEntity ==
    /\ view = "totals" /\ pc = "fold" /\ i <= Len(results) /\ j >= 1
    /\ get_team_name(EntitiesOf(results[i]).v[j].k) \in DOMAIN team_data

\* C1: folding the days of a document in any permutation gives every team the
\* same total_tokens and every (api_key, model_name) pair of every team the same
\* total, prompt and completion tokens.
C1_PermutationInvariant ==
    (view = "totals" /\ pc = "done") =>
        \A perm \in Orders(1..Len(results)) :
            TeamTotals(fetch_total_tokens_per_team(Permute(results, perm)))
                = TeamTotals(team_data)

\* two different days were folded, and a pair holds tokens of both
C1_Witness ==
    /\ view = "totals" /\ pc = "done" /\ Len(results) = 2
    /\ TeamTotals(fetch_total_tokens_per_team(<<results[1]>>))
         # TeamTotals(fetch_total_tokens_per_team(<<results[2]>>))
    /\ \E name \in DOMAIN team_data : \E key \in Range(team_data[name].api_keys) :
         \E m \in Range(key.models) :
            /\ \E p1 \in TeamTotals(fetch_total_tokens_per_team(<<results[1]>>))[name].pairs :
                 p1[1] = key.api_key /\ p1[2] = m.model_name /\ p1[3] > 0
            /\ \E p2 \in TeamTotals(fetch_total_tokens_per_team(<<results[2]>>))[name].pairs :
                 p2[1] = key.api_key /\ p2[2] = m.model_name /\ p2[4] > 0

\* total_tokens of team_id in one entry; 0 when the team is not in its entities
DayTokens(entry, team_id) ==
    Get(EntityOf(EntitiesOf(entry).v, team_id).metrics, "total_tokens", 0)

\* C2: after all days are folded, the total_tokens of each requested team is the
\* sum over the days of entities[team].metrics.total_tokens, a day without the
\* team (or without the counter) counting zero.
C2_TotalIsSumOverDays ==
    (view = "totals" /\ pc = "done") =>
        \A t \in 1..Len(team_ids) :
            team_data[get_team_name(team_ids[t])].total_tokens
                = SumSeq([n \in 1..Len(results) |-> DayTokens(results[n], team_ids[t])])

\* C3: when _merge_breakdown folds a day, a pair of the day that the running
\* breakdown already holds gets each of its three totals increased by the day's
\* value and stays a single entry; a pair it does not hold is added with the
\* day's values.
C3_MergeSumsPairs ==
    [][(view = "totals" /\ pc = "fold" /\ pc' = "fold" /\ j' = j + 1
        /\ get_team_name(EntitiesOf(results[i]).v[j + 1].k) \in DOMAIN team_data) =>
        LET name == get_team_name(EntitiesOf(results[i]).v[j + 1].k)
            target == team_data[name].api_keys
            merged == team_data'[name].api_keys
        IN \A key \in Range(breakdown') : \A sm \in Range(key.models) :
             LET old == PairAt(target, key.api_key, sm.model_name)
                 new == PairAt(merged, key.api_key, sm.model_name)
             IN /\ Cardinality(new) = 1
                /\ \A at \in new :
                     LET e == merged[at[1]].models[at[2]]
                     IN IF old = {}
                        THEN e = sm
                        ELSE \A was \in old :
                               LET o == target[was[1]].models[was[2]]
                               IN /\ e.total_tokens = o.total_tokens + sm.total_tokens
                                  /\ e.prompt_tokens = o.prompt_tokens + sm.prompt_tokens
                                  /\ e.completion_tokens
                                       = o.completion_tokens + sm.completion_tokens
       ]_vars

\* a pair of the day just merged holds more tokens than the day brought
C3_Witness ==
    /\ FoldedEntity
    /\ \E key \in Range(breakdown) : \E sm \in Range(key.models) :
         \E at \in PairAt(team_data[get_team_name(EntitiesOf(results[i]).v[j].k)].api_keys,
                          key.api_key, sm.model_name) :
            LET e == team_data[get_team_name(EntitiesOf(results[i]).v[j].k)]
                        .api_keys[at[1]].models[at[2]]
            IN /\ e.total_tokens > sm.total_tokens
               /\ e.prompt_tokens > sm.prompt_tokens
               /\ sm.total_tokens > 0

\* C4: the extraction of one day gives a key of the team that is in no model
\* group exactly one model entry, named "All Models", with the key's own metrics
\* of the entity; a key that is in a model group gets one entry per such group,
\* with that group's metrics for the key, and no "All Models" entry.
C4_FallbackToAllModels ==
    FoldedEntity =>
        LET entity == EntitiesOf(results[i]).v[j].v
            groups == TopLevel(results[i]).v.model_groups.v
            own == entity.api_key_breakdown.v
            Uses(api_key) ==
                {g \in 1..Len(groups) :
                    /\ groups[g].v.api_key_breakdown.st = "val"
                    /\ api_key \in DOMAIN groups[g].v.api_key_breakdown.v}
            Counter(metrics, c) == IF c \in DOMAIN metrics THEN metrics[c] ELSE 0
        IN /\ {key.api_key : key \in Range(breakdown)} = DOMAIN own
           /\ \A key \in Range(breakdown) :
                IF Uses(key.api_key) = {}
                THEN /\ Len(key.models) = 1
                     /\ key.models[1].model_name = "All Models"
                     /\ key.models[1].total_tokens
                          = Counter(own[key.api_key].metrics, "total_tokens")
                     /\ key.models[1].prompt_tokens
                          = Counter(own[key.api_key].metrics, "prompt_tokens")
                     /\ key.models[1].completion_tokens
                          = Counter(own[key.api_key].metrics, "completion_tokens")
                ELSE /\ Len(key.models) = Cardinality(Uses(key.api_key))
                     /\ \A g \in Uses(key.api_key) : \E m \in 1..Len(key.models) :
                          LET metrics ==
                                groups[g].v.api_key_breakdown.v[key.api_key].metrics
                          IN /\ key.models[m].model_name = groups[g].k
                             /\ key.models[m].total_tokens
                                  = Counter(metrics, "total_tokens")
                             /\ key.models[m].prompt_tokens
                                  = Counter(metrics, "prompt_tokens")
                             /\ key.models[m].completion_tokens
                                  = Counter(metrics, "completion_tokens")
                     /\ \A m \in 1..Len(key.models) :
                          key.models[m].model_name # "All Models"

\* one key of the entity fell back to "All Models", another is in a model group
C4_Witness ==
    /\ FoldedEntity
    /\ \E k1 \in Range(breakdown) :
         /\ k1.models[1].model_name = "All Models"
         /\ k1.models[1].prompt_tokens > 0
    /\ \E k2 \in Range(breakdown) : k2.models[1].model_name # "All Models"

\* the keys of team_id in one entry, and the alias the entry's api_keys gives a key
DayKeys(entry, team_id) ==
    DOMAIN GetOpt(EntityOf(EntitiesOf(entry).v, team_id).api_key_breakdown, EmptyDict).v

DayAlias(entry, api_key) ==
    KeyAliasOf(GetOpt(TopLevel(entry).v.api_keys, EmptyDict).v, api_key)

\* C5: after all days are folded, a key of a team for which some day's api_keys
\* carries a non-empty key_alias has that alias on its entry, whether the alias
\* came with the first day of the key or with a later one.
C5_AliasFromAnyDay ==
    (view = "totals" /\ pc = "done") =>
        \A t \in 1..Len(team_ids) : \A n \in 1..Len(results) :
            \A api_key \in DayKeys(results[n], team_ids[t]) :
                Truthy(DayAlias(results[n], api_key)) =>
                    \E key \in Range(team_data[get_team_name(team_ids[t])].api_keys) :
                        /\ key.api_key = api_key
                        /\ \E m \in 1..Len(results) :
                             /\ api_key \in DayKeys(results[m], team_ids[t])
                             /\ key.key_alias = DayAlias(results[m], api_key)

\* C6: once the entry of a key has a key_alias, folding a further day (one whose
\* api_keys omits the key or its alias, or any other) leaves that alias on it.
C6_AliasSurvives ==
    [][(view = "totals" /\ pc = "fold") =>
        \A name \in DOMAIN team_data : \A n \in 1..Len(team_data[name].api_keys) :
            team_data[name].api_keys[n].key_alias # NoAlias =>
                /\ n <= Len(team_data'[name].api_keys)
                /\ team_data'[name].api_keys[n].api_key
                     = team_data[name].api_keys[n].api_key
                /\ team_data'[name].api_keys[n].key_alias
                     = team_data[name].api_keys[n].key_alias
       ]_vars

\* the day just folded names the key without an alias; its entry has one
C6_Witness ==
    /\ FoldedEntity /\ i = 2
    /\ \E src \in Range(breakdown) :
         /\ src.key_alias = NoAlias
         /\ \E key \in Range(team_data[get_team_name(EntitiesOf(results[i]).v[j].k)].api_keys) :
              /\ key.api_key = src.api_key
              /\ key.key_alias # NoAlias
              /\ key.models[1].total_tokens > src.models[1].total_tokens

\* C7: the result holds exactly one record per requested team id; a team without
\* data has its record, with total_tokens 0 and no api keys; a key or model
\* entry whose counts are all zero is kept.
C7_OneRecordPerTeam ==
    (view = "totals" /\ pc = "done") =>
        /\ Cardinality(DOMAIN team_data) = Cardinality(Range(team_ids))
        /\ \A t \in 1..Len(team_ids) :
             LET name == get_team_name(team_ids[t])
             IN /\ name \in DOMAIN team_data
                /\ (\A n \in 1..Len(results) :
                       IndexOf(EntitiesOf(results[n]).v, team_ids[t]) = 0) =>
                     /\ team_data[name].total_tokens = 0
                     /\ team_data[name].api_keys = <<>>
                /\ \A n \in 1..Len(results) :
                     \A api_key \in DayKeys(results[n], team_ids[t]) :
                        \E key \in Range(team_data[name].api_keys) :
                           key.api_key = api_key /\ key.models # <<>>

---------------------------------------------------------------------------
(* Properties of every projector *)

\* C8: on a fetched document in which a breakdown, an entities, model_groups or
\* api_keys map, an api_key_breakdown or a metadata is absent, no projector
\* raises.
C8_AbsentPartsNeverRaise == ~upstream.failed => pc # "raised"

\* C9: when the upstream fetch fails with a RuntimeError, whatever its message,
\* the projector raises one RuntimeError and leaves no partial result.
C9_UpstreamFailureSurfaced ==
    upstream.failed =>
        /\ pc = "raised"
        /\ error.type = "RuntimeError"
        /\ team_data = EmptyDict
        /\ daily_data = <<>>

---------------------------------------------------------------------------
(* Properties of TimeSeriesService *)

\* C10: every row lists every requested team once, in the order of the request;
\* a team that is not in the day's entities, or a day without breakdown, gives
\* the team tokens and request counts of 0.
C10_EveryRowListsEveryTeam ==
    view = "timeseries" =>
        \A n \in 1..Len(daily_data) :
            /\ Len(daily_data[n].teams) = Len(team_ids)
            /\ \A t \in 1..Len(team_ids) :
                 LET point == daily_data[n].teams[t]
                     present ==
                        /\ results[n].breakdown.st = "val"
                        /\ results[n].breakdown.v.entities.st = "val"
                        /\ \E e \in Range(results[n].breakdown.v.entities.v) :
                              e.k = team_ids[t]
                 IN /\ point.name = get_team_name(team_ids[t])
                    /\ ~present =>
                         /\ point.tokens = 0
                         /\ point.total_requests = 0
                         /\ point.successful_requests = 0
                         /\ point.failed_requests = 0

\* a row of a day without breakdown, and a row in which only one team has data
C10_Witness ==
    /\ view = "timeseries" /\ pc = "done" /\ Len(daily_data) = 2
    /\ results[1].breakdown.st = "null"
    /\ results[2].breakdown.st = "val"
    /\ daily_data[2].teams[1].tokens = 0
    /\ daily_data[2].teams[2].tokens > 0
    /\ daily_data[2].teams[2].failed_requests > 0

\* the entities of one upstream day as the document holds them
DayEntities(entry) ==
    IF entry.breakdown.st = "val" /\ entry.breakdown.v.entities.st = "val"
    THEN entry.breakdown.v.entities.v ELSE <<>>

\* counter c of team_id in one upstream day; 0 without the team or the counter
DayCounter(entry, team_id, c) ==
    IF \E e \in Range(DayEntities(entry)) : e.k = team_id /\ c \in DOMAIN e.v.metrics
    THEN (CHOOSE e \in Range(DayEntities(entry)) : e.k = team_id).v.metrics[c]
    ELSE 0

\* C11: the rows are the upstream entries, one row per entry and in the order of
\* the results list (not sorted, not merged by date); the values of a row are
\* the counters of the same day's entities[team].metrics, nothing of other days.
C11_RowPerEntryInOrder ==
    (view = "timeseries" /\ pc \in {"fold", "done"}) =>
        /\ Len(daily_data) = i - 1
        /\ pc = "done" => Len(daily_data) = Len(results)
        /\ \A n \in 1..Len(daily_data) :
             /\ daily_data[n].date = results[n].date
             /\ \A t \in 1..Len(team_ids) :
                  LET point == daily_data[n].teams[t]
                  IN /\ point.tokens = DayCounter(results[n], team_ids[t], "total_tokens")
                     /\ point.total_requests
                          = DayCounter(results[n], team_ids[t], "api_requests")
                     /\ point.successful_requests
                          = DayCounter(results[n], team_ids[t], "successful_requests")
                     /\ point.failed_requests
                          = DayCounter(results[n], team_ids[t], "failed_requests")

\* two rows whose dates come in descending order, both with requests of team t1
C11_Witness ==
    /\ view = "timeseries" /\ pc = "done" /\ Len(daily_data) = 2
    /\ daily_data[1].date = "d2" /\ daily_data[2].date = "d1"
    /\ daily_data[1].teams[1].total_requests > 0
    /\ daily_data[2].teams[1].total_requests > 0
    /\ daily_data[1].teams[1].tokens # daily_data[2].teams[1].tokens

---------------------------------------------------------------------------
(* Properties of SuccessRateService *)

\* the sum over the fetched days of counter c of team_id
SumOverDays(team_id, c) ==
    SumSeq([n \in 1..Len(results) |-> DayCounter(results[n], team_id, c)])

\* the summary elements that carry the display name of team_id
RowsOf(team_id) ==
    {n \in 1..Len(summary) : summary[n].name = get_team_name(team_id)}

\* C12: the total, successful and failed requests reported for each requested
\* team are the sums over the days of the team's api_requests,
\* successful_requests and failed_requests (0 without the team or the counter);
\* the days 100/95/5 and 150/140/10 give 250/235/15 and a success rate of 94.0.
C12_RequestsAreSumsOverDays ==
    (view = "success_rate" /\ pc = "done") =>
        \A t \in 1..Len(team_ids) :
            /\ RowsOf(team_ids[t]) # {}
            /\ \A n \in RowsOf(team_ids[t]) :
                 /\ summary[n].total_requests = SumOverDays(team_ids[t], "api_requests")
                 /\ summary[n].successful_requests
                      = SumOverDays(team_ids[t], "successful_requests")
                 /\ summary[n].failed_requests
                      = SumOverDays(team_ids[t], "failed_requests")
                 /\ (/\ SumOverDays(team_ids[t], "api_requests") = 250
                     /\ SumOverDays(team_ids[t], "successful_requests") = 235)
                      => summary[n].success_rate = 94 * Hundredths

\* C13: a team whose accumulated total_requests is 0 (no data at all, or
\* successful requests without api_requests) is in the summary with a success
\* rate of 0.0.
C13_ZeroRequestsGiveZeroRate ==
    (view = "success_rate" /\ pc = "done") =>
        /\ \A t \in 1..Len(team_ids) : RowsOf(team_ids[t]) # {}
        /\ \A n \in 1..Len(summary) :
             summary[n].total_requests = 0 => summary[n].success_rate = 0

\* one team has successful requests but no api_requests, another has no data
C13_Witness ==
    /\ view = "success_rate" /\ pc = "done" /\ Len(summary) = 2
    /\ summary[1].total_requests = 0 /\ summary[1].successful_requests > 0
    /\ summary[1].success_rate = 0
    /\ summary[2].total_requests = 0 /\ summary[2].successful_requests = 0
    /\ \A n \in 1..Len(results) : DayCounter(results[n], team_ids[2], "api_requests") = 0

---------------------------------------------------------------------------
(* Properties of CostEfficiencyService *)

\* the api_key_breakdown of team_id's entity in one upstream day, {} if absent
DayTeamKeys(entry, team_id) ==
    IF \E e \in Range(DayEntities(entry)) :
          e.k = team_id /\ e.v.api_key_breakdown.st = "val"
    THEN DOMAIN (CHOOSE e \in Range(DayEntities(entry)) : e.k = team_id)
                   .v.api_key_breakdown.v
    ELSE {}

\* the model groups of one upstream day as the document holds them
DayGroups(entry) ==
    IF entry.breakdown.st = "val" /\ entry.breakdown.v.model_groups.st = "val"
    THEN entry.breakdown.v.model_groups.v ELSE <<>>

\* the per-key records of model group `model` in one upstream day, {} if absent
DayModelKeys(entry, model) ==
    IF \E g \in Range(DayGroups(entry)) : g.k = model /\ g.v.api_key_breakdown.st = "val"
    THEN (CHOOSE g \in Range(DayGroups(entry)) : g.k = model).v.api_key_breakdown.v
    ELSE EmptyDict

\* counter c of the keys team_id and model share on one upstream day
DayShared(entry, team_id, model, c) ==
    SumFn([k \in DayTeamKeys(entry, team_id) \cap DOMAIN DayModelKeys(entry, model) |->
             IF c \in DOMAIN DayModelKeys(entry, model)[k].metrics
             THEN DayModelKeys(entry, model)[k].metrics[c] ELSE 0])

SharedOverDays(team_id, model, c) ==
    SumSeq([n \in 1..Len(results) |-> DayShared(results[n], team_id, model, c)])

\* team_id and model share a key on some fetched day
Intersects(team_id, model) ==
    \E n \in 1..Len(results) :
        DayTeamKeys(results[n], team_id) \cap DOMAIN DayModelKeys(results[n], model) # {}

\* C14: the total_tokens and total_cost of the cell of a (team, model) pair are
\* the sums, over the days and over the keys that are both in the team's
\* api_key_breakdown and in the model group's, of the model group's total_tokens
\* and spend for the key (0 for a missing counter).
C14_CellIsSumOverSharedKeys ==
    (view = "cost_efficiency" /\ pc = "done") =>
        \A t \in 1..Len(team_ids) : \A n \in 1..Len(cells) :
            cells[n].team = get_team_name(team_ids[t]) =>
                /\ cells[n].total_tokens
                     = SharedOverDays(team_ids[t], cells[n].model, "total_tokens")
                /\ cells[n].total_cost
                     = RoundHalfEven(SharedOverDays(team_ids[t], cells[n].model, "spend"),
                                     Millionths \div TenThousandths)

C16_CostPer1kGuardsZeroTokens ==
    (view = "cost_efficiency" /\ pc = "done") =>
        \A x \in Range(team_model_data) : \A y \in Range(x.v) :
            LET mine == {n \in 1..Len(cells) : cells[n].team = x.k /\ cells[n].model = y.k}
                per_token == (1000 * TenThousandths) \div Millionths
            IN /\ Cardinality(mine) = 1
               /\ \A n \in mine :
                    LET off == cells[n].cost_per_1k_tokens * y.v.total_tokens
                                 - y.v.total_cost * per_token
                    IN /\ cells[n].total_tokens = y.v.total_tokens
                       /\ y.v.total_tokens = 0 => cells[n].cost_per_1k_tokens = 0
                       /\ y.v.total_tokens > 0 =>
                            /\ 2 * off <= y.v.total_tokens
                            /\ -2 * off <= y.v.total_tokens
                       /\ (y.v.total_tokens = 333333 /\ y.v.total_cost = 9999999) =>
                            cells[n].cost_per_1k_tokens = 300

\* a cell of a pair that was charged a cost for no tokens at all
C16_Witness ==
    /\ view = "cost_efficiency" /\ pc = "done"
    /\ \E n \in 1..Len(cells) :
         /\ cells[n].total_tokens = 0
         /\ cells[n].total_cost > 0
         /\ cells[n].cost_per_1k_tokens = 0

\* the display names of the requested teams are distinct
DistinctTeamNames ==
    \A t, u \in 1..Len(team_ids) :
        get_team_name(team_ids[t]) = get_team_name(team_ids[u]) => t = u

\* on every fetched day every key is listed under at most one requested team
KeysUnderOneTeam ==
    \A n \in 1..Len(results) : \A t, u \in 1..Len(team_ids) :
        DayTeamKeys(results[n], team_ids[t]) \cap DayTeamKeys(results[n], team_ids[u]) # {}
          => t = u

\* the keys listed under some requested team on one upstream day
DayRequestedKeys(entry) ==
    UNION {DayTeamKeys(entry, team_ids[t]) : t \in 1..Len(team_ids)}

\* the total_tokens of the model group's records of one day whose key is
\* listed under some requested team, each record once
DayModelTokens(entry, model) ==
    SumFn([k \in DayRequestedKeys(entry) \cap DOMAIN DayModelKeys(entry, model) |->
             Get(DayModelKeys(entry, model)[k].metrics, "total_tokens", 0)])

\* the total_tokens of the cells of the model, over all teams
CellTokensOfModel(model) ==
    SumSeq([n \in 1..Len(cells) |->
              IF cells[n].model = model THEN cells[n].total_tokens ELSE 0])

\* C28: where team display names are distinct and every key is listed under at
\* most one requested team per day, the cells of a model sum, over the teams,
\* to the sum over the days of the model group's total_tokens for the keys of
\* the requested teams: every (day, model, key) record is counted once.
C28_EachUsageRecordCountedOnce ==
    (view = "cost_efficiency" /\ pc = "done" /\ DistinctTeamNames /\ KeysUnderOneTeam) =>
        \A model \in ModelNames :
            CellTokensOfModel(model)
              = SumSeq([n \in 1..Len(results) |-> DayModelTokens(results[n], model)])

\* two days on which two teams and then two keys of one team used m1: three
\* records and a fourth, all counted
C28_Witness ==
    /\ view = "cost_efficiency" /\ pc = "done" /\ Len(results) = 2
    /\ DistinctTeamNames /\ KeysUnderOneTeam
    /\ Len(DayEntities(results[1])) = 2
    /\ Cardinality(DayTeamKeys(results[2], "t1")) = 2
    /\ Len(cells) >= 2
    /\ CellTokensOfModel("m1") = 4 * MaxTok

---------------------------------------------------------------------------
(* Properties of ModelUsageService *)

\* the (display name, total_tokens) pairs of the document in the order of the
\* fold: day by day and, inside a day, model by model; from the n-th day on
RECURSIVE FoldedModels(_)
FoldedModels(n) ==
    IF n > Len(results) THEN <<>>
    ELSE LET ms == ModelsOf(results[n]).v
         IN [m \in 1..Len(ms) |->
               [name |-> get_display_name(model_mapping, ms[m].k),
                tokens |-> Get(ms[m].v.metrics, "total_tokens", 0)]]
            \o FoldedModels(n + 1)

\* the sum of the tokens of the first n pairs that carry the name
RECURSIVE TotalOfName(_, _, _)
TotalOfName(folded, name, n) ==
    IF n = 0 THEN 0
    ELSE TotalOfName(folded, name, n - 1)
         + (IF folded[n].name = name THEN folded[n].tokens ELSE 0)

\* the position at which the fold sees the name first
FirstSeenAt(folded, name) ==
    CHOOSE n \in 1..Len(folded) :
        /\ folded[n].name = name
        /\ \A m \in 1..(n - 1) : folded[m].name # name

\* C17: the mapping a model usage request returns holds exactly the display
\* names whose tokens over all days and models sum to a non-zero total, each
\* once and with that total, never with 0 tokens; the entries are in descending
\* order of tokens and, among equal totals, in the order in which the fold saw
\* the names first.
C17_NonZeroModelsDescending ==
    (view = "model_usage" /\ pc = "done") =>
        LET folded == FoldedModels(1)
            names == {folded[n].name : n \in 1..Len(folded)}
            Total(name) == TotalOfName(folded, name, Len(folded))
        IN /\ {model_usage[n].k : n \in 1..Len(model_usage)}
                 = {name \in names : Total(name) # 0}
           /\ \A n \in 1..Len(model_usage) :
                /\ model_usage[n].v = Total(model_usage[n].k)
                /\ model_usage[n].v # 0
           /\ \A n, m \in 1..Len(model_usage) :
                n < m =>
                  \/ model_usage[n].v > model_usage[m].v
                  \/ /\ model_usage[n].v = model_usage[m].v
                     /\ FirstSeenAt(folded, model_usage[n].k)
                          < FirstSeenAt(folded, model_usage[m].k)

\* two models end with equal totals; m2 is seen first, with 0 tokens, on the
\* first day and receives its tokens on the second: the result lists m2 first
C17_Witness ==
    /\ view = "model_usage" /\ pc = "done"
    /\ Len(results) = 2
    /\ Len(model_usage) = 2
    /\ model_usage[1].v = model_usage[2].v
    /\ model_usage[1].k = "m2"
    /\ ModelsOf(results[1]).v = <<Mdl("m2", [total_tokens |-> 0]),
                                   Mdl("m1", [total_tokens |-> MaxTok])>>

---------------------------------------------------------------------------
(* Properties of TeamService *)

\* the alias the directory holds for the team id (None when it lists no such team)
DirectoryAlias(team_id) ==
    LET at == {n \in 1..Len(teams) : teams[n].team_id = team_id}
    IN IF at = {} THEN NoAlias ELSE teams[Max(at)].team_alias

\* the answered get_team_name calls of the history
NameCalls ==
    {n \in 1..Len(history) : history[n].op = "get_team_name" /\ ~history[n].raised}

\* C18: every answered get_team_name(team_id) returns the alias the directory
\* holds for the team when that alias is present and not empty, and the team
\* id itself when the alias is missing, None or empty or the directory does
\* not list the id; the result is never the empty string or None.
C18_AliasElseTeamId ==
    view = "team_service" =>
        \A n \in NameCalls :
            LET alias == DirectoryAlias(history[n].arg)
            IN /\ history[n].name =
                    IF alias # NoAlias /\ alias # "" THEN alias ELSE history[n].arg
               /\ history[n].name # ""
               /\ history[n].name # NoAlias

\* the same for team ids that are not the empty string
C18_NonEmptyIds ==
    view = "team_service" =>
        \A n \in NameCalls :
            LET alias == DirectoryAlias(history[n].arg)
            IN /\ history[n].name =
                    IF alias # NoAlias /\ alias # "" THEN alias ELSE history[n].arg
               /\ history[n].arg # "" =>
                    (history[n].name # "" /\ history[n].name # NoAlias)

\* C19: on one TeamService whose upstream never fails, whatever sequence of
\* fetch_teams, get_team_ids and get_team_name calls is made one after the
\* other, the upstream fetch_teams has been invoked exactly once as soon as
\* one call has been made (no later call invokes it again), and two calls of
\* the same operation with the same argument have identical results.
C19_FetchedOnceThenCached ==
    (view = "team_service" /\ ~upstream.failed) =>
        /\ fetch_count = (IF history = <<>> THEN 0 ELSE 1)
        /\ \A a, b \in 1..Len(history) :
             (history[a].op = history[b].op /\ history[a].arg = history[b].arg)
                => history[a] = history[b]

\* a name was asked for, then the teams were fetched, then the same name was
\* asked for again, on a directory that lists the team with an alias
C19_Witness ==
    /\ view = "team_service" /\ ~upstream.failed
    /\ Len(history) = 3
    /\ history[1].op = "get_team_name" /\ history[1].arg = "t1"
    /\ history[1].name = "A"
    /\ history[2].op = "fetch_teams" /\ Len(history[2].teams) = 2
    /\ history[3] = history[1]
    /\ fetch_count = 1

\* the calls of the history that raised, and those that were answered
RaisedCalls == {n \in 1..Len(history) : history[n].raised}
AnsweredCalls == {n \in 1..Len(history) : ~history[n].raised}

\* C29: a call whose upstream team fetch raises leaves the service as it was:
\* as long as no call was answered, _initialized is false and the team list,
\* the id list and the id-to-name map are empty; every call made before the
\* first answered one attempts the upstream fetch, so the fetches are the
\* raised calls plus the one that succeeded; and an answered call serves the
\* fetched directory.
C29_RaisedFetchLeavesServiceUnchanged ==
    view = "team_service" =>
        /\ AnsweredCalls = {} =>
             /\ ~initialized
             /\ teams = <<>> /\ team_ids = <<>> /\ team_id_to_name = EmptyDict
        /\ fetch_count = Cardinality(RaisedCalls)
                            + (IF AnsweredCalls = {} THEN 0 ELSE 1)
        /\ \A n \in AnsweredCalls :
             /\ initialized
             /\ \A m \in RaisedCalls : m < n
             /\ history[n] = ResultOf([op |-> history[n].op, arg |-> history[n].arg],
                                      [teams |-> teams, team_ids |-> team_ids,
                                       team_id_to_name |-> team_id_to_name])

\* get_team_ids raised, and asked again it fetched and answered two ids
C29_Witness ==
    /\ view = "team_service" /\ Len(history) = 2
    /\ history[1].op = "get_team_ids" /\ history[1].raised
    /\ history[2].op = "get_team_ids" /\ ~history[2].raised
    /\ Len(history[2].team_ids) = 2
    /\ fetch_count = 2

\* the callers that found the service uninitialised at line 31 and have made
\* the upstream call of line 34
FetchedCallers ==
    {c \in Callers : callers[c].saw_uninitialized /\ callers[c].pc # "34"}

\* C20: nothing guards the lazy population against concurrent first use: every
\* caller that finds _initialized false at line 31 makes its own upstream
\* fetch, whatever another caller has done since, so that when both callers
\* pass the check before either reaches line 39 the upstream team fetch is
\* performed twice.
C20_EveryCallerPastTheCheckFetches ==
    view = "concurrent" =>
        /\ fetch_count = Cardinality(FetchedCallers)
        /\ (\A c \in Callers : callers[c].saw_uninitialized /\ callers[c].pc = "done")
              => fetch_count > 1

\* both callers passed the _initialized check and the upstream was fetched twice
C20_Witness ==
    /\ view = "concurrent"
    /\ \A c \in Callers : callers[c].saw_uninitialized /\ callers[c].pc = "done"
    /\ callers["c1"].op = "get_team_ids" /\ callers["c2"].op = "get_team_name"
    /\ fetch_count = 2

---------------------------------------------------------------------------
(* Properties of the HTTP layer and of the client *)

\* the date parameter is a text that is no date
BadFormat(param) == param.st # "null" /\ ~strptime(param.v).ok

\* the date parameter is a date after the day of the request
InFuture(param, today) ==
    param.st # "null" /\ strptime(param.v).ok /\ strptime(param.v).day > today

\* both parameters are dates and the end is before the start
EndBeforeStart(req) ==
    /\ req.start_date.st # "null" /\ strptime(req.start_date.v).ok
    /\ req.end_date.st # "null" /\ strptime(req.end_date.v).ok
    /\ strptime(req.end_date.v).day < strptime(req.start_date.v).day

InvalidDates(req) ==
    \/ BadFormat(req.start_date) \/ BadFormat(req.end_date)
    \/ InFuture(req.start_date, req.today) \/ InFuture(req.end_date, req.today)
    \/ EndBeforeStart(req)

\* C21: every request that has run through execute_date_range_endpoint has
\* one HTTP result: 400 without a call of the service method when a date
\* parameter has a bad format, is in the future or the end is before the start;
\* otherwise the service method was called, and a RuntimeError from it gave 502,
\* any other exception from it gave 500, and its result was returned unchanged
\* when it raised nothing.
C21_EveryOutcomeHasOneHttpResult ==
    (view = "endpoint" /\ pc \in {"responded", "exited"}) =>
        /\ pc = "responded"
        /\ IF InvalidDates(request)
           THEN response.status = 400 /\ ~response.called
           ELSE /\ response.called
                /\ response.outcome.type = "RuntimeError" => response.status = 502
                /\ response.outcome.type \notin {"", "RuntimeError"} => response.status = 500
                /\ response.outcome.type = "" =>
                      (response.status = 200 /\ response.body = "result")

\* C25: when the gateway answers the activity request with a body whose
\* metadata.total_pages is greater than 1, what leaves
\* LiteLLMAPI.fetch_team_daily_activity is a ValueError raised to the caller,
\* and the process is not terminated.
C25_MultiplePagesRaiseValueError ==
    (/\ view = "endpoint" /\ pc \in {"service", "endpoint", "responded", "exited"}
     /\ response.answer.kind = "json" /\ response.answer.total_pages > 1) =>
        /\ response.client.type = "ValueError"
        /\ ~response.exited

---------------------------------------------------------------------------
(* Further properties of TokenAggregationService *)

\* every key and every model entry of `before` is at its place in `after`, with
\* each of its three totals at least what it was
GrownFrom(before, after) ==
    /\ Len(after) >= Len(before)
    /\ \A k \in 1..Len(before) :
         /\ after[k].api_key = before[k].api_key
         /\ Len(after[k].models) >= Len(before[k].models)
         /\ \A m \in 1..Len(before[k].models) :
              /\ after[k].models[m].model_name = before[k].models[m].model_name
              /\ after[k].models[m].total_tokens >= before[k].models[m].total_tokens
              /\ after[k].models[m].prompt_tokens >= before[k].models[m].prompt_tokens
              /\ after[k].models[m].completion_tokens
                   >= before[k].models[m].completion_tokens

\* C22: in every step of the fold of a totals request (an entity folded, a day
\* finished, the result returned, an exception raised) the running breakdown
\* of every team only grows: every (api_key, model_name) entry that existed
\* before the step still exists after it, each of its three token totals is at
\* least its previous value, and no entry is removed or reset.
C22_BreakdownOnlyGrows ==
    [][(view = "totals" /\ pc = "fold") =>
          /\ DOMAIN team_data' = DOMAIN team_data
          /\ \A name \in DOMAIN team_data :
               /\ GrownFrom(team_data[name].api_keys, team_data'[name].api_keys)
               /\ team_data'[name].total_tokens >= team_data[name].total_tokens]_vars

\* a second day has been folded onto an entry of the first: its totals are the
\* sums of two days, and a key of the second day has been added after it
C22_Witness ==
    /\ view = "totals" /\ pc = "done" /\ Len(results) = 2
    /\ "A" \in DOMAIN team_data
    /\ Len(team_data["A"].api_keys) = 2
    /\ team_data["A"].api_keys[1].models[1].prompt_tokens = 2 * MaxTok

\* no two entries of the sequence give the same value under the key function
Distinct(seq, KeyOf(_)) ==
    \A n, m \in 1..Len(seq) : KeyOf(seq[n]) = KeyOf(seq[m]) => n = m

\* C26: in every state of the fold, the breakdown of every team holds at most
\* one entry per api_key and, inside each key, at most one model entry per
\* model_name.
C26_OneEntryPerKeyAndModel ==
    view = "totals" =>
        \A name \in DOMAIN team_data :
            /\ Distinct(team_data[name].api_keys, LAMBDA key : key.api_key)
            /\ \A n \in 1..Len(team_data[name].api_keys) :
                 Distinct(team_data[name].api_keys[n].models,
                          LAMBDA model : model.model_name)

\* two days merged into one key that was used with two models: one key entry,
\* two model entries, the first holding the sum of both days
C26_Witness ==
    /\ view = "totals" /\ pc = "done" /\ Len(results) = 2
    /\ "A" \in DOMAIN team_data
    /\ Len(team_data["A"].api_keys) = 1
    /\ Len(team_data["A"].api_keys[1].models) = 2
    /\ team_data["A"].api_keys[1].models[1].prompt_tokens = 2 * MaxTok

\* C27: the fold of an entity whose team id is none of the requested team ids
\* leaves every requested team's total_tokens and breakdown as they are.
C27_UnrequestedEntityChangesNothing ==
    [][(/\ view = "totals" /\ pc = "fold" /\ i <= Len(results)
        /\ ~TopLevel(results[i]).isNone /\ ~EntitiesOf(results[i]).isNone
        /\ j < Len(EntitiesOf(results[i]).v)
        /\ EntitiesOf(results[i]).v[j + 1].k \notin Range(team_ids))
          => team_data' = team_data]_vars

(* Further properties of ModelUsageService *)

\* the total_tokens of the model-group record of the name in the n-th day,
\* 0 where the day has no such record or the record has no counter
ModelGroupTokens(n, name) ==
    LET groups == GetOpt(ModelsTopLevel(results[n]).v.model_groups, <<>>).v
    IN IF IndexOf(groups, name) = 0 THEN 0
       ELSE Get(groups[IndexOf(groups, name)].v.metrics, "total_tokens", 0)

RECURSIVE ModelGroupTotal(_, _)
ModelGroupTotal(n, name) ==
    IF n = 0 THEN 0 ELSE ModelGroupTotal(n - 1, name) + ModelGroupTokens(n, name)

\* the accumulated total of a name, 0 for a name that was never seen
AccumulatedTotal(name) ==
    IF IndexOf(model_totals, name) = 0 THEN 0
    ELSE model_totals[IndexOf(model_totals, name)].v

C24_DirectoryFetchedAtMostOncePerProcess ==
    view = "process" => fetch_count <= 1

(* Further properties of TeamService under concurrent callers *)

\* C30: whenever _initialized is true, _team_ids and the keys of
\* _team_id_to_name hold the same set of ids, those of one fetched team list.
C30_IdsAndNamesOfOneList ==
    (view = "concurrent" /\ initialized) =>
        Range(team_ids) = DOMAIN team_id_to_name


====
